---------------------------- MODULE Spec2Model ----------------------------
(***************************************************************************)
(* The ptnet guest driver (LINUX/ptnet/ptnet.c): the TX path               *)
(* (ptnet_start_xmit), the RX path (ptnet_rx_poll), the two interrupt      *)
(* handlers and the CSB that the driver shares with the host backend.      *)
(* The host backend and the kernel (qdisc layer, NAPI) are the             *)
(* environment: they are modelled by what the driver's comments and the    *)
(* protocol say they do.                                                   *)
(***************************************************************************)
EXTENDS Integers, Sequences, FiniteSets, TLC

(***************************************************************************)
(* Bounds of the model.                                                    *)
(***************************************************************************)
\* kring->nkr_num_slots of both rings
NSlots == 3
\* ring->nr_buf_size, bytes per slot buffer (it must hold a header record)
BufSize == 14
\* calls of ptnet_start_xmit in one behaviour
MaxXmit == 3
\* packets the backend places in the RX ring in one behaviour
MaxRxPkts == 3
\* the budget NAPI hands to ptnet_rx_poll
Budget == 2

(***************************************************************************)
(* Program constants.                                                      *)
(***************************************************************************)
\* sizeof(struct virtio_net_hdr_v1)
VNetHdrLen == 12
NET_PTN_FEATURES_BASE == 1
NET_PTN_FEATURES_VNET_HDR == 2
NS_MOREFRAG == 32
NAF_FORCE_READ == 1
NAF_FORCE_RECLAIM == 2
NETDEV_TX_OK == 0
CHECKSUM_NONE == 0
CHECKSUM_UNNECESSARY == 1
CHECKSUM_PARTIAL == 3
VIRTIO_NET_HDR_F_NEEDS_CSUM == 1
VIRTIO_NET_HDR_F_DATA_VALID == 2
VIRTIO_NET_HDR_GSO_NONE == 0
VIRTIO_NET_HDR_GSO_TCPV4 == 1
VIRTIO_NET_HDR_GSO_UDP == 3
VIRTIO_NET_HDR_GSO_TCPV6 == 4
VIRTIO_NET_HDR_GSO_ECN == 128
SKB_GSO_TCPV4 == 1
SKB_GSO_UDP == 2
SKB_GSO_DODGY == 4
SKB_GSO_TCP_ECN == 8
SKB_GSO_TCPV6 == 16

(***************************************************************************)
(* Arithmetic on bit masks.                                                *)
(***************************************************************************)
\* x & b # 0, for a mask b with some bits set
RECURSIVE BitAnd(_, _)
BitAnd(x, y) ==
    IF x = 0 \/ y = 0 THEN 0
    ELSE (IF x % 2 = 1 /\ y % 2 = 1 THEN 1 ELSE 0) + 2 * BitAnd(x \div 2, y \div 2)

RECURSIVE BitOr(_, _)
BitOr(x, y) ==
    IF x = 0 THEN y
    ELSE IF y = 0 THEN x
    ELSE (IF x % 2 = 1 \/ y % 2 = 1 THEN 1 ELSE 0) + 2 * BitOr(x \div 2, y \div 2)

\* x & ~y
BitClear(x, y) == x - BitAnd(x, y)

Min(a, b) == IF a < b THEN a ELSE b

RECURSIVE SumLen(_)
SumLen(ss) == IF ss = <<>> THEN 0 ELSE Len(Head(ss)) + SumLen(Tail(ss))

RECURSIVE Flatten(_)
Flatten(ss) == IF ss = <<>> THEN <<>> ELSE Head(ss) \o Flatten(Tail(ss))

(***************************************************************************)
(* Ring arithmetic.                                                        *)
(***************************************************************************)
Slots == 0 .. (NSlots - 1)
\* unsigned int const lim = kring->nkr_num_slots - 1
lim == NSlots - 1

nm_next(i, l) == IF i = l THEN 0 ELSE i + 1
nm_prev(i, l) == IF i = 0 THEN l ELSE i - 1

(***************************************************************************)
(* State.                                                                  *)
(***************************************************************************)
VARIABLES
    ptfeatures,     \* pi->ptfeatures, mirrors the PTFEAT register
    nm_priv,        \* pi->nm_priv # NULL: the interface is open for the stack
    csb,            \* struct paravirt_csb, shared with the host
    stats,          \* netdev->stats
    tx_kring,       \* na->tx_rings[0] and its netmap_ring cursors
    tx_slot,        \* ring->slot[] of the TX ring, with each slot's buffer
    queue_stopped,  \* the qdisc layer's XOFF bit of the TX queue
    xmit,           \* the ptnet_start_xmit call in progress
    tx_last,        \* what the last ptnet_start_xmit call did
    n_xmit,         \* calls of ptnet_start_xmit so far
    txkick,         \* a write to PTNET_IO_TXKICK the host has not served yet
    tx_irq,         \* the TX MSI-X vector is raised
    be_tx,          \* the host's TX worker
    tx_expect,      \* accepted packets the host has not observed yet
    tx_obs,         \* what the host observed so far
    rx_kring,       \* na->rx_rings[0] and its netmap_ring cursors
    rx_slot,        \* ring->slot[] of the RX ring, with each slot's buffer
    napi,           \* pi->napi: NAPI_STATE_SCHED and who set it
    poll,           \* the ptnet_rx_poll invocations in progress
    rxkick,         \* a write to PTNET_IO_RXKICK the host has not served yet
    rx_irq,         \* the RX MSI-X vector is raised
    be_rx,          \* the host's RX worker
    n_rx,           \* packets the host placed in the RX ring so far
    rx_expect,      \* packets placed in the RX ring and not yet consumed
    rx_dlv,         \* what ptnet_rx_poll handed to napi_gro_receive so far
    hdr,            \* one header record on its way from encoder to decoder
    na,             \* the netmap adapter: flags, registrations, ring modes
    host_reg,       \* the control operations written to PTNET_IO_PTCTL
    reg_last,       \* what the last nm_register call did
    cl,             \* the position of ptnet_close
    cfg             \* one call of ptnet_nm_config: its inputs and its results

txvars == <<tx_kring, tx_slot, queue_stopped, xmit, tx_last, n_xmit, txkick,
            tx_irq, be_tx, tx_expect, tx_obs>>

rxvars == <<rx_kring, rx_slot, napi, poll, rxkick, rx_irq, be_rx, n_rx,
            rx_expect, rx_dlv>>

\* what the TX side leaves alone, and what the RX side leaves alone
ctlvars == <<na, host_reg, reg_last, cl, cfg>>

TxFrame == UNCHANGED <<rxvars, hdr, ctlvars>>
RxFrame == UNCHANGED <<txvars, hdr, ctlvars>>

(***************************************************************************)
(* Packets.  Byte i of the packet with identity id is Byte(id, i): two     *)
(* packets never share a byte, so a stream put together from the wrong     *)
(* slots differs from every submitted one.                                 *)
(***************************************************************************)
Byte(id, i) == 100 * id + i
Bytes(id, from, n) == [i \in 1 .. n |-> Byte(id, from + i)]

NoVh == [flags |-> 0, gso_type |-> 0, hdr_len |-> 0, gso_size |-> 0,
         csum_start |-> 0, csum_offset |-> 0, num_buffers |-> 0]

NoMeta == [ip_summed |-> CHECKSUM_NONE, csum_start |-> 0, csum_offset |-> 0,
           gso_size |-> 0, gso_type |-> 0]

\* an sk_buff: linear part, page fragments, offload metadata
MkSkb(id, headlen, fraglens, meta, more) ==
    [id |-> id,
     head |-> Bytes(id, 0, headlen),
     frags |-> [f \in 1 .. Len(fraglens) |->
                  Bytes(id, headlen + SumLen([g \in 1 .. (f - 1) |->
                                               Bytes(id, 0, fraglens[g])]),
                        fraglens[f])],
     meta |-> meta,
     xmit_more |-> more]

skb_headlen(skb) == Len(skb.head)
skb_len(skb) == Len(skb.head) + SumLen(skb.frags)
skb_is_gso(skb) == skb.meta.gso_size # 0
SkbBytes(skb) == skb.head \o Flatten(skb.frags)

NoSkb == [id |-> 0, head |-> <<>>, frags |-> <<>>, meta |-> NoMeta,
          xmit_more |-> FALSE]

(***************************************************************************)
(* Slot buffers.  A buffer holds a header record followed by data (hdr),   *)
(* or data only.  HdrByte stands for a byte of the header record.          *)
(***************************************************************************)
HdrByte == 0 - 1

BufRaw(s) ==
    (IF s.hdr THEN [i \in 1 .. VNetHdrLen |-> HdrByte] ELSE <<>>) \o s.data

\* n bytes at offset off of the buffer; what was never written is not there
BufRead(s, off, n) ==
    SubSeq(BufRaw(s), off + 1, Min(Len(BufRaw(s)), off + n))

\* the first bytes of a buffer read as a struct virtio_net_hdr_v1
ByteAt(d, i) == IF i <= Len(d) /\ d[i] >= 0 THEN d[i] % 256 ELSE 0

VhView(s) ==
    IF s.hdr THEN s.vh
    ELSE [flags |-> ByteAt(s.data, 1), gso_type |-> ByteAt(s.data, 2),
          hdr_len |-> ByteAt(s.data, 3), gso_size |-> ByteAt(s.data, 5),
          csum_start |-> ByteAt(s.data, 7), csum_offset |-> ByteAt(s.data, 9),
          num_buffers |-> ByteAt(s.data, 11)]

(***************************************************************************)
(* ptnet_sync_tail and the CSB accessors.                                  *)
(***************************************************************************)
\* the host's hwcur and hwtail, as the CSB holds them
ptnetmap_guest_read_kring_csb(ptring, kring) ==
    [kring EXCEPT !.nr_hwcur = ptring.hwcur, !.nr_hwtail = ptring.hwtail]

ptnetmap_guest_write_kring_csb(ptring, cur, head) ==
    [ptring EXCEPT !.cur = cur, !.head = head]

\* ptnet_sync_tail without line 119: tail is left where it was
SyncTailKeepsTail(ptring, kring) ==
    ptnetmap_guest_read_kring_csb(ptring, kring)

ptnet_sync_tail(ptring, kring) ==
    LET k == ptnetmap_guest_read_kring_csb(ptring, kring)
    IN  [k EXCEPT !.tail = k.nr_hwtail, !.rtail = k.nr_hwtail]

(***************************************************************************)
(* ptnet_start_xmit, first step: the header record.                        *)
(***************************************************************************)
\* stale is what vh->gso_type held before the call: no branch assigns it
\* when gso_size has none of the three type bits
EncodeGsoType(skb, stale) ==
    LET gs == skb.meta.gso_size
        t  == IF BitAnd(gs, SKB_GSO_TCPV4) # 0 THEN VIRTIO_NET_HDR_GSO_TCPV4
              ELSE IF BitAnd(gs, SKB_GSO_UDP) # 0 THEN VIRTIO_NET_HDR_GSO_UDP
              ELSE IF BitAnd(gs, SKB_GSO_TCPV6) # 0 THEN VIRTIO_NET_HDR_GSO_TCPV6
              ELSE stale
    IN  IF BitAnd(gs, SKB_GSO_TCP_ECN) # 0
        THEN BitOr(t, VIRTIO_NET_HDR_GSO_ECN)
        ELSE t

ReadsStaleGsoType(skb) ==
    /\ skb_is_gso(skb)
    /\ BitAnd(skb.meta.gso_size, SKB_GSO_TCPV4) = 0
    /\ BitAnd(skb.meta.gso_size, SKB_GSO_UDP) = 0
    /\ BitAnd(skb.meta.gso_size, SKB_GSO_TCPV6) = 0

EncodeVh(skb, stale) ==
    LET partial == skb.meta.ip_summed = CHECKSUM_PARTIAL
    IN  [flags |-> IF partial THEN VIRTIO_NET_HDR_F_NEEDS_CSUM ELSE 0,
         csum_start |-> IF partial THEN skb.meta.csum_start ELSE 0,
         csum_offset |-> IF partial THEN skb.meta.csum_offset ELSE 0,
         hdr_len |-> IF skb_is_gso(skb) THEN skb_headlen(skb) ELSE 0,
         gso_size |-> IF skb_is_gso(skb) THEN skb.meta.gso_size ELSE 0,
         gso_type |-> IF skb_is_gso(skb) THEN EncodeGsoType(skb, stale)
                      ELSE VIRTIO_NET_HDR_GSO_NONE,
         num_buffers |-> 0]

HaveVnetHdr == BitAnd(ptfeatures, NET_PTN_FEATURES_VNET_HDR) # 0

(***************************************************************************)
(* ptnet_start_xmit, second and third step: the copy loops.  A fill state  *)
(* holds the slots, ring->head (= ring->cur), the bytes used in the        *)
(* current buffer and the slots closed so far.                             *)
(***************************************************************************)
CloseSlot(st, flags) ==
    [st EXCEPT !.slot[st.head].len = st.nmbuf_bytes,
               !.slot[st.head].flags = flags,
               !.head = nm_next(st.head, lim),
               !.nmbuf_bytes = 0,
               !.log = Append(@, [idx |-> st.head, len |-> st.nmbuf_bytes,
                                  flags |-> flags])]

\* memcpy(nmbuf, skbdata, copy) at offset nmbuf_bytes of the current buffer
CopyBytes(st, bytes) ==
    LET off == IF st.hdr_here THEN VNetHdrLen ELSE 0
        keep == SubSeq(st.slot[st.head].data, 1, st.nmbuf_bytes - off)
    IN  [st EXCEPT !.slot[st.head].data = keep \o bytes,
                   !.slot[st.head].hdr = st.hdr_here,
                   !.nmbuf_bytes = @ + Len(bytes)]

\* the copy loop, were it to close a buffer as soon as it is full
RECURSIVE CopyInEager(_, _)
CopyInEager(st, skbdata) ==
    LET copy == Min(Len(skbdata), BufSize - st.nmbuf_bytes)
        st1  == CopyBytes(st, SubSeq(skbdata, 1, copy))
        rest == SubSeq(skbdata, copy + 1, Len(skbdata))
        next == [CloseSlot(st1, NS_MOREFRAG) EXCEPT !.hdr_here = FALSE]
    IN  IF rest = <<>>
        THEN IF st1.nmbuf_bytes = BufSize THEN next ELSE st1
        ELSE CopyInEager(next, rest)

RECURSIVE CopyIn(_, _)
CopyIn(st, skbdata) ==
    LET copy == Min(Len(skbdata), BufSize - st.nmbuf_bytes)
        st1  == CopyBytes(st, SubSeq(skbdata, 1, copy))
        rest == SubSeq(skbdata, copy + 1, Len(skbdata))
    IN  IF rest = <<>> THEN st1
        ELSE CopyIn([CloseSlot(st1, NS_MOREFRAG) EXCEPT !.hdr_here = FALSE], rest)

RECURSIVE CopyFrags(_, _)
CopyFrags(st, frags) ==
    IF frags = <<>> THEN st
    ELSE CopyFrags(CopyIn(st, Head(frags)), Tail(frags))

\* lines 155-268: header, linear part, fragments, last slot
FillSlots(slot, head, skb, stale) ==
    LET st0 == [slot |-> IF HaveVnetHdr
                         THEN [slot EXCEPT ![head].vh = EncodeVh(skb, stale),
                                           ![head].hdr = TRUE]
                         ELSE [slot EXCEPT ![head].hdr = FALSE],
                head |-> head,
                nmbuf_bytes |-> IF HaveVnetHdr THEN VNetHdrLen ELSE 0,
                hdr_here |-> HaveVnetHdr,
                log |-> <<>>]
        st1 == CopyIn(st0, skb.head)
        st2 == CopyFrags(st1, skb.frags)
    IN  CloseSlot(st2, 0)

(***************************************************************************)
(* ptnet_start_xmit.  The call is cut where it reads or writes memory that *)
(* the host or an interrupt handler also touches.                          *)
(***************************************************************************)
XmitReturn(skb, outcome, old_head, old_tail, log) ==
    [outcome |-> outcome, ret |-> NETDEV_TX_OK, skb |-> skb,
     old_head |-> old_head, old_tail |-> old_tail, log |-> log,
     dblchk |-> "none"]

\* a ring that never counts as full
TxRingNeverFull(k) == FALSE

\* line 148 and line 286: no slot is free
TxRingFull(k) == k.head = k.tail

\* lines 146-268: pull, the head == tail check, fill the slots
XmitStart(skb, stale) ==
    /\ xmit.pc = "idle"
    /\ nm_priv
    /\ ~queue_stopped
    /\ n_xmit < MaxXmit
    /\ n_xmit' = n_xmit + 1
    /\ LET k == ptnet_sync_tail(csb.tx_ring, tx_kring)
       IN  IF TxRingFull(k)
           THEN /\ tx_kring' = k
                /\ tx_last' = XmitReturn(skb, "dropped", k.head, k.tail, <<>>)
                /\ UNCHANGED <<tx_slot, xmit, tx_expect>>
           ELSE LET st == FillSlots(tx_slot, k.head, skb, stale)
                IN  /\ tx_kring' = [k EXCEPT !.head = st.head, !.cur = st.head]
                    /\ tx_slot' = st.slot
                    /\ xmit' = [pc |-> "publish", skb |-> skb]
                    /\ tx_last' = XmitReturn(skb, "running", k.head, k.tail, st.log)
                    /\ tx_expect' = Append(tx_expect, SkbBytes(skb))
    /\ TxFrame
    /\ UNCHANGED <<ptfeatures, nm_priv, csb, stats, queue_stopped, txkick,
                   tx_irq, be_tx, tx_obs>>

\* lines 270-276: nm_txsync_prologue, publish cur and head in the CSB
XmitPublish ==
    /\ xmit.pc = "publish"
    /\ tx_kring' = [tx_kring EXCEPT !.rcur = tx_kring.cur, !.rhead = tx_kring.head]
    /\ csb' = [csb EXCEPT !.tx_ring =
                 ptnetmap_guest_write_kring_csb(@, tx_kring.cur, tx_kring.head)]
    /\ xmit' = [xmit EXCEPT !.pc = "kick"]
    /\ TxFrame
    /\ UNCHANGED <<ptfeatures, nm_priv, stats, tx_slot, queue_stopped, tx_last,
                   n_xmit, txkick, tx_irq, be_tx, tx_expect, tx_obs>>

\* line 279 without the test of skb->xmit_more
XmitKicksInBatch(c, skb) == c.host_need_txkick = 1

\* line 279
XmitWantsKick(c, skb) == c.host_need_txkick = 1 /\ ~skb.xmit_more

\* lines 278-282: kick the host if it asked for it
XmitKick ==
    /\ xmit.pc = "kick"
    /\ IF XmitWantsKick(csb, xmit.skb)
       THEN /\ csb' = [csb EXCEPT !.tx_ring.sync_flags = NAF_FORCE_RECLAIM]
            /\ txkick' = TRUE
       ELSE UNCHANGED <<csb, txkick>>
    /\ xmit' = [xmit EXCEPT !.pc = "stop"]
    /\ TxFrame
    /\ UNCHANGED <<ptfeatures, nm_priv, stats, tx_kring, tx_slot, queue_stopped,
                   tx_last, n_xmit, tx_irq, be_tx, tx_expect, tx_obs>>

\* lines 299-304
XmitStats(skb) ==
    [stats EXCEPT !.tx_bytes = @ + skb_len(skb), !.tx_packets = @ + 1]

\* lines 286-288, or 299-304 when the ring is not full
XmitStop ==
    /\ xmit.pc = "stop"
    /\ IF TxRingFull(tx_kring)
       THEN /\ queue_stopped' = TRUE
            /\ csb' = [csb EXCEPT !.guest_need_txkick = 1]
            /\ xmit' = [xmit EXCEPT !.pc = "dblchk"]
            /\ UNCHANGED <<stats, tx_last>>
       ELSE /\ stats' = XmitStats(xmit.skb)
            /\ xmit' = [pc |-> "idle", skb |-> NoSkb]
            /\ tx_last' = [tx_last EXCEPT !.outcome = "accepted"]
            /\ UNCHANGED <<queue_stopped, csb>>
    /\ TxFrame
    /\ UNCHANGED <<ptfeatures, nm_priv, tx_kring, tx_slot, n_xmit, txkick,
                   tx_irq, be_tx, tx_expect, tx_obs>>

\* ptnet_start_xmit without lines 290-296: no second pull
XmitNoRecheck ==
    /\ xmit.pc = "dblchk"
    /\ stats' = XmitStats(xmit.skb)
    /\ xmit' = [pc |-> "idle", skb |-> NoSkb]
    /\ tx_last' = [tx_last EXCEPT !.outcome = "accepted", !.dblchk = "full"]
    /\ TxFrame
    /\ UNCHANGED <<ptfeatures, nm_priv, csb, tx_kring, tx_slot, queue_stopped,
                   n_xmit, txkick, tx_irq, be_tx, tx_expect, tx_obs>>

\* lines 290-304: the double check, then the counters
XmitDoubleCheck ==
    /\ xmit.pc = "dblchk"
    /\ LET k == ptnet_sync_tail(csb.tx_ring, tx_kring)
       IN  /\ tx_kring' = k
           /\ IF ~TxRingFull(k)
              THEN /\ queue_stopped' = FALSE
                   /\ csb' = [csb EXCEPT !.guest_need_txkick = 0]
              ELSE UNCHANGED <<queue_stopped, csb>>
           /\ tx_last' = [tx_last EXCEPT !.outcome = "accepted",
                             !.dblchk = IF TxRingFull(k) THEN "full" ELSE "space"]
    /\ stats' = XmitStats(xmit.skb)
    /\ xmit' = [pc |-> "idle", skb |-> NoSkb]
    /\ TxFrame
    /\ UNCHANGED <<ptfeatures, nm_priv, tx_slot, n_xmit, txkick, tx_irq,
                   be_tx, tx_expect, tx_obs>>

(***************************************************************************)
(* ptnet_tx_intr.                                                          *)
(***************************************************************************)
\* ptnet_tx_intr without line 355: the queue is not woken
TxIntrNoWake == UNCHANGED queue_stopped

\* lines 349-357; netmap_tx_irq() handles the interrupt when the rings are
\* in netmap mode for a netmap application (nm_priv is NULL then)
TxIntrBody ==
    IF ~nm_priv
    THEN UNCHANGED queue_stopped
    ELSE queue_stopped' = FALSE

ptnet_tx_intr ==
    /\ tx_irq
    /\ tx_irq' = FALSE
    /\ TxIntrBody
    /\ TxFrame
    /\ UNCHANGED <<ptfeatures, nm_priv, csb, stats, tx_kring, tx_slot, xmit,
                   tx_last, n_xmit, txkick, be_tx, tx_expect, tx_obs>>

(***************************************************************************)
(* The host's TX worker: asleep until kicked, it consumes the slots        *)
(* between its hwcur and the published head, publishes hwcur and hwtail,   *)
(* and then reads guest_need_txkick to decide on an interrupt.  Before it  *)
(* sleeps it sets host_need_txkick and looks at head once more.            *)
(***************************************************************************)
BackendTxKicked ==
    /\ txkick
    /\ txkick' = FALSE
    /\ IF be_tx.pc = "sleep"
       THEN /\ be_tx' = [be_tx EXCEPT !.pc = "run"]
            /\ csb' = [csb EXCEPT !.host_need_txkick = 0]
       ELSE UNCHANGED <<be_tx, csb>>
    /\ TxFrame
    /\ UNCHANGED <<ptfeatures, nm_priv, stats, tx_kring, tx_slot, queue_stopped,
                   xmit, tx_last, n_xmit, tx_irq, tx_expect, tx_obs>>

\* the payload bytes of one TX slot, as the host reads them
TxSlotPayload(s, first) ==
    LET off == IF first /\ HaveVnetHdr THEN VNetHdrLen ELSE 0
    IN  BufRead(s, off, s.len - off)

BackendTxConsume ==
    /\ be_tx.pc = "run"
    /\ be_tx.hwcur # csb.tx_ring.head
    /\ LET s    == tx_slot[be_tx.hwcur]
           asm  == be_tx.asm \o TxSlotPayload(s, be_tx.first)
           last == BitAnd(s.flags, NS_MOREFRAG) = 0
       IN  /\ be_tx' = [be_tx EXCEPT !.hwcur = nm_next(@, lim),
                                     !.asm = IF last THEN <<>> ELSE asm,
                                     !.first = last]
           /\ IF last
              THEN /\ tx_obs' = [count |-> tx_obs.count + 1,
                                 mismatch |-> \/ tx_obs.mismatch
                                              \/ tx_expect = <<>>
                                              \/ Head(tx_expect) # asm]
                   /\ tx_expect' = IF tx_expect = <<>> THEN <<>>
                                   ELSE Tail(tx_expect)
              ELSE UNCHANGED <<tx_obs, tx_expect>>
    /\ TxFrame
    /\ UNCHANGED <<ptfeatures, nm_priv, csb, stats, tx_kring, tx_slot,
                   queue_stopped, xmit, tx_last, n_xmit, txkick, tx_irq>>

BackendTxPublish ==
    /\ be_tx.pc = "run"
    /\ be_tx.hwcur # csb.tx_ring.hwcur
    /\ csb' = [csb EXCEPT !.tx_ring.hwcur = be_tx.hwcur,
                          !.tx_ring.hwtail = nm_prev(be_tx.hwcur, lim)]
    /\ be_tx' = [be_tx EXCEPT !.pc = "notify"]
    /\ TxFrame
    /\ UNCHANGED <<ptfeatures, nm_priv, stats, tx_kring, tx_slot, queue_stopped,
                   xmit, tx_last, n_xmit, txkick, tx_irq, tx_expect, tx_obs>>

BackendTxNotify ==
    /\ be_tx.pc = "notify"
    /\ tx_irq' = (tx_irq \/ csb.guest_need_txkick = 1)
    /\ be_tx' = [be_tx EXCEPT !.pc = "run"]
    /\ TxFrame
    /\ UNCHANGED <<ptfeatures, nm_priv, csb, stats, tx_kring, tx_slot,
                   queue_stopped, xmit, tx_last, n_xmit, txkick, tx_expect,
                   tx_obs>>

BackendTxIdle ==
    /\ be_tx.pc = "run"
    /\ be_tx.hwcur = csb.tx_ring.head
    /\ be_tx.hwcur = csb.tx_ring.hwcur
    /\ csb' = [csb EXCEPT !.host_need_txkick = 1]
    /\ be_tx' = [be_tx EXCEPT !.pc = "recheck"]
    /\ TxFrame
    /\ UNCHANGED <<ptfeatures, nm_priv, stats, tx_kring, tx_slot, queue_stopped,
                   xmit, tx_last, n_xmit, txkick, tx_irq, tx_expect, tx_obs>>

BackendTxRecheck ==
    /\ be_tx.pc = "recheck"
    /\ IF be_tx.hwcur # csb.tx_ring.head
       THEN /\ csb' = [csb EXCEPT !.host_need_txkick = 0]
            /\ be_tx' = [be_tx EXCEPT !.pc = "run"]
       ELSE /\ be_tx' = [be_tx EXCEPT !.pc = "sleep"]
            /\ UNCHANGED csb
    /\ TxFrame
    /\ UNCHANGED <<ptfeatures, nm_priv, stats, tx_kring, tx_slot, queue_stopped,
                   xmit, tx_last, n_xmit, txkick, tx_irq, tx_expect, tx_obs>>

(***************************************************************************)
(* The packets the stack submits.                                          *)
(***************************************************************************)
\* offload metadata of a packet that asks for checksum and segmentation
GsoMeta == [ip_summed |-> CHECKSUM_PARTIAL, csum_start |-> 1, csum_offset |-> 0,
            gso_size |-> 9, gso_type |-> SKB_GSO_TCPV4]

\* linear length, fragment lengths and metadata: one slot, two slots of
\* linear data, a fragment that crosses into a second slot
TxShapes ==
    { <<1, <<>>, NoMeta>>,
      <<BufSize + 1, <<>>, NoMeta>>,
      <<1, <<BufSize>>, GsoMeta>> }

\* what vh->gso_type may hold of an earlier use of the buffer
StaleGsoTypes == {VIRTIO_NET_HDR_GSO_NONE, VIRTIO_NET_HDR_GSO_UDP}

TxInputs(id) ==
    { MkSkb(id, sh[1], sh[2], sh[3], more) : sh \in TxShapes, more \in BOOLEAN }

\* packet identities are reused: at most NSlots packets are in the ring
PktId(n) == 1 + (n % (NSlots + 1))

ptnet_start_xmit ==
    \E skb \in TxInputs(PktId(n_xmit)) :
        \E stale \in (IF HaveVnetHdr /\ ReadsStaleGsoType(skb)
                      THEN StaleGsoTypes ELSE {VIRTIO_NET_HDR_GSO_NONE}) :
            XmitStart(skb, stale)

(***************************************************************************)
(* ptnet_rx_intr.                                                          *)
(***************************************************************************)
\* napi_schedule_prep(): test and set NAPI_STATE_SCHED
napi_schedule_prep(n) == ~n.sched

\* lines 374-388
RxIntrBody ==
    IF ~nm_priv
    THEN UNCHANGED <<napi, csb>>
    ELSE IF napi_schedule_prep(napi)
         THEN /\ csb' = [csb EXCEPT !.guest_need_rxkick = 0]
              /\ napi' = [sched |-> TRUE, by |-> 0]
         ELSE /\ csb' = [csb EXCEPT !.guest_need_rxkick = 1]
              /\ UNCHANGED napi

ptnet_rx_intr ==
    /\ rx_irq
    /\ rx_irq' = FALSE
    /\ RxIntrBody
    /\ RxFrame
    /\ UNCHANGED <<ptfeatures, nm_priv, stats, rx_kring, rx_slot, poll, rxkick,
                   be_rx, n_rx, rx_expect, rx_dlv>>

(***************************************************************************)
(* ptnet_rx_poll.  NAPI runs one invocation at a time while it holds       *)
(* NAPI_STATE_SCHED (owns); after napi_complete_done() the rest of the      *)
(* invocation may overlap the next one, which an interrupt taken on        *)
(* another CPU has scheduled (napi.by = 0); one that the invocation i      *)
(* scheduled itself (napi.by = i) runs on its CPU after it returned.       *)
(***************************************************************************)
Pollers == {1, 2}

\* napi_disable() has not been called: NAPI can run the poll callback
NapiEnabled == cl.pc \in {"open", "csb_off", "tx_off"}
\* taken counts the slots the invocation took from the ring
IdlePoll == [pc |-> "idle", work_done |-> 0, taken |-> 0, owns |-> FALSE,
             raced |-> FALSE]

\* lines 416-418
PollStart(i) ==
    /\ poll[i].pc = "idle"
    /\ NapiEnabled
    /\ napi.sched
    /\ \A j \in Pollers : ~poll[j].owns
    /\ napi.by # 0 => poll[napi.by].pc = "idle"
    /\ \A j \in Pollers : j < i => poll[j].pc # "idle"
    /\ rx_kring' = ptnet_sync_tail(csb.rx_ring, rx_kring)
    /\ poll' = [poll EXCEPT ![i] = [pc |-> "loop", work_done |-> 0,
                                    taken |-> 0, owns |-> TRUE,
                                    raced |-> FALSE]]
    /\ RxFrame
    /\ UNCHANGED <<ptfeatures, nm_priv, csb, stats, rx_slot, napi, rxkick,
                   rx_irq, be_rx, n_rx, rx_expect, rx_dlv>>

\* skb_partial_csum_set(): the checksum field must lie in the linear data
skb_partial_csum_set_ok(len, start, off) ==
    ~(start > len \/ start + off > len - 2)

\* lines 453-490: the metadata of the inbound sk_buff
DecodeGsoType(vh) ==
    LET t == BitClear(vh.gso_type, VIRTIO_NET_HDR_GSO_ECN)
        base == IF t = VIRTIO_NET_HDR_GSO_TCPV4 THEN SKB_GSO_TCPV4
                ELSE IF t = VIRTIO_NET_HDR_GSO_UDP THEN SKB_GSO_UDP
                ELSE IF t = VIRTIO_NET_HDR_GSO_TCPV6 THEN SKB_GSO_TCPV6
                ELSE 0
        ecn == IF BitAnd(vh.gso_type, VIRTIO_NET_HDR_GSO_ECN) # 0
               THEN BitOr(base, SKB_GSO_TCP_ECN) ELSE base
    IN  BitOr(ecn, SKB_GSO_DODGY)

DecodeVh(have_vnet_hdr, vh) ==
    LET csum == have_vnet_hdr /\ BitAnd(vh.flags, VIRTIO_NET_HDR_F_NEEDS_CSUM) # 0
        valid == have_vnet_hdr /\ ~csum
                 /\ BitAnd(vh.flags, VIRTIO_NET_HDR_F_DATA_VALID) # 0
        gso == have_vnet_hdr /\ vh.gso_type # VIRTIO_NET_HDR_GSO_NONE
    IN  [ip_summed |-> IF csum THEN CHECKSUM_PARTIAL
                       ELSE IF valid THEN CHECKSUM_UNNECESSARY
                       ELSE CHECKSUM_NONE,
         csum_start |-> IF csum THEN vh.csum_start ELSE 0,
         csum_offset |-> IF csum THEN vh.csum_offset ELSE 0,
         gso_size |-> IF gso THEN vh.gso_size ELSE 0,
         gso_type |-> IF gso THEN DecodeGsoType(vh) ELSE 0]

\* lines 431-438: where the payload starts and how long it is.  len is an
\* unsigned int: below zero it stands for the wrapped value 2^32 + len
RxLen(s) == IF HaveVnetHdr THEN s.len - VNetHdrLen ELSE s.len
RxLenWraps(s) == RxLen(s) < 0
RxPayload(s) == BufRead(s, IF HaveVnetHdr THEN VNetHdrLen ELSE 0, RxLen(s))

\* the checksum setup of lines 453-459 fails and the sk_buff is freed
RxCsumDrop(s) ==
    /\ HaveVnetHdr
    /\ BitAnd(VhView(s).flags, VIRTIO_NET_HDR_F_NEEDS_CSUM) # 0
    /\ ~skb_partial_csum_set_ok(RxLen(s), VhView(s).csum_start,
                                VhView(s).csum_offset)

\* the packets the host placed: the one a consumed slot belongs to is the
\* oldest one not yet consumed to its last slot
RxConsumed(s) ==
    IF BitAnd(s.flags, NS_MOREFRAG) = 0 /\ rx_expect # <<>>
    THEN Tail(rx_expect) ELSE rx_expect

\* a failed allocation that does not leave the loop
AllocFailedGoesOn(p) == [p EXCEPT !.taken = @ + 1]

\* lines 441-445: napi_alloc_skb() failed, break
AllocFailed(p) == [p EXCEPT !.pc = "broke", !.taken = @ + 1]

\* lines 421-495: one turn of the loop
PollSlot(i, alloc_ok) ==
    /\ poll[i].pc = "loop"
    /\ poll[i].work_done < Budget
    /\ rx_kring.head # rx_kring.tail
    /\ LET s == rx_slot[rx_kring.head]
       IN  /\ rx_kring' = [rx_kring EXCEPT !.head = nm_next(@, lim),
                                           !.cur = nm_next(rx_kring.head, lim)]
           /\ rx_expect' = RxConsumed(s)
           /\ IF ~alloc_ok
              THEN /\ poll' = [poll EXCEPT ![i] = AllocFailed(@)]
                   /\ UNCHANGED <<stats, rx_dlv>>
              ELSE IF RxLenWraps(s)
              THEN \* skb_put() and memcpy() of some 4 GB: the kernel is gone
                   /\ poll' = [poll EXCEPT ![i].pc = "panic",
                                            ![i].taken = @ + 1]
                   /\ UNCHANGED <<stats, rx_dlv>>
              ELSE /\ stats' = [stats EXCEPT !.rx_bytes = @ + RxLen(s),
                                             !.rx_packets = @ + 1]
                   /\ poll' = [poll EXCEPT ![i].work_done = @ + 1,
                                            ![i].taken = @ + 1]
                   /\ IF RxCsumDrop(s)
                      THEN UNCHANGED rx_dlv
                      ELSE rx_dlv' =
                             [count |-> rx_dlv.count + 1,
                              bad |-> \/ rx_dlv.bad
                                      \/ rx_expect = <<>>
                                      \/ Head(rx_expect).bytes # RxPayload(s),
                              skb |-> [bytes |-> RxPayload(s),
                                       meta |-> DecodeVh(HaveVnetHdr, VhView(s))]]
    /\ RxFrame
    /\ UNCHANGED <<ptfeatures, nm_priv, csb, rx_slot, napi, rxkick, rx_irq,
                   be_rx, n_rx>>

PollLoopDone(i) ==
    \/ poll[i].pc = "broke"
    \/ /\ poll[i].pc = "loop"
       /\ ~(poll[i].work_done < Budget /\ rx_kring.head # rx_kring.tail)

\* lines 497-501 without the test of work_done against the budget
PollArmAlways(i) ==
    /\ PollLoopDone(i)
    /\ csb' = [csb EXCEPT !.guest_need_rxkick = 1]
    /\ poll' = [poll EXCEPT ![i].pc = "complete",
                            ![i].raced = /\ rx_kring.head = rx_kring.tail
                                         /\ csb.rx_ring.hwtail # rx_kring.tail]
    /\ RxFrame
    /\ UNCHANGED <<ptfeatures, nm_priv, stats, rx_kring, rx_slot, napi, rxkick,
                   rx_irq, be_rx, n_rx, rx_expect, rx_dlv>>

\* lines 497-501: the budget is not used up, arm the notifications
PollArm(i) ==
    /\ PollLoopDone(i)
    /\ IF poll[i].work_done < Budget
       THEN /\ csb' = [csb EXCEPT !.guest_need_rxkick = 1]
            /\ poll' = [poll EXCEPT ![i].pc = "complete",
                                    ![i].raced = /\ rx_kring.head = rx_kring.tail
                                                 /\ csb.rx_ring.hwtail # rx_kring.tail]
       ELSE /\ poll' = [poll EXCEPT ![i].pc = "publish"]
            /\ UNCHANGED csb
    /\ RxFrame
    /\ UNCHANGED <<ptfeatures, nm_priv, stats, rx_kring, rx_slot, napi, rxkick,
                   rx_irq, be_rx, n_rx, rx_expect, rx_dlv>>

\* line 502: napi_complete_done() clears NAPI_STATE_SCHED
PollComplete(i) ==
    /\ poll[i].pc = "complete"
    /\ napi' = [sched |-> FALSE, by |-> 0]
    /\ poll' = [poll EXCEPT ![i].pc = "dblchk", ![i].owns = FALSE]
    /\ RxFrame
    /\ UNCHANGED <<ptfeatures, nm_priv, csb, stats, rx_kring, rx_slot, rxkick,
                   rx_irq, be_rx, n_rx, rx_expect, rx_dlv>>

\* ptnet_rx_poll without lines 504-511: no second pull
PollNoRecheck(i) ==
    /\ poll[i].pc = "dblchk"
    /\ poll' = [poll EXCEPT ![i].pc = "publish"]
    /\ RxFrame
    /\ UNCHANGED <<ptfeatures, nm_priv, csb, stats, rx_kring, rx_slot, napi,
                   rxkick, rx_irq, be_rx, n_rx, rx_expect, rx_dlv>>

\* lines 504-511: the double check
PollDoubleCheck(i) ==
    /\ poll[i].pc = "dblchk"
    /\ LET k == ptnet_sync_tail(csb.rx_ring, rx_kring)
       IN  /\ rx_kring' = k
           /\ IF k.head # k.tail /\ napi_schedule_prep(napi)
              THEN /\ csb' = [csb EXCEPT !.guest_need_rxkick = 0]
                   /\ napi' = [sched |-> TRUE, by |-> i]
              ELSE UNCHANGED <<csb, napi>>
    /\ poll' = [poll EXCEPT ![i].pc = "publish"]
    /\ RxFrame
    /\ UNCHANGED <<ptfeatures, nm_priv, stats, rx_slot, rxkick, rx_irq, be_rx,
                   n_rx, rx_expect, rx_dlv>>

\* the invocation returns work_done; NAPI polls again one that did not
\* complete, since NAPI_STATE_SCHED is still set
PollReturn(p) ==
    [IdlePoll EXCEPT !.work_done = p.work_done, !.taken = p.taken]

\* lines 520-527: publish cur and head in the CSB
PollPublish(i) ==
    /\ poll[i].pc = "publish"
    /\ IF poll[i].work_done > 0
       THEN /\ rx_kring' = [rx_kring EXCEPT !.rcur = rx_kring.cur,
                                            !.rhead = rx_kring.head]
            /\ csb' = [csb EXCEPT !.rx_ring =
                         ptnetmap_guest_write_kring_csb(@, rx_kring.cur,
                                                        rx_kring.head)]
            /\ poll' = [poll EXCEPT ![i].pc = "kick"]
       ELSE /\ poll' = [poll EXCEPT ![i] = PollReturn(@)]
            /\ UNCHANGED <<rx_kring, csb>>
    /\ RxFrame
    /\ UNCHANGED <<ptfeatures, nm_priv, stats, rx_slot, napi, rxkick, rx_irq,
                   be_rx, n_rx, rx_expect, rx_dlv>>

\* lines 528-535: kick the host if it asked for it
PollKick(i) ==
    /\ poll[i].pc = "kick"
    /\ IF csb.host_need_rxkick = 1
       THEN /\ csb' = [csb EXCEPT !.rx_ring.sync_flags = NAF_FORCE_READ]
            /\ rxkick' = TRUE
       ELSE UNCHANGED <<csb, rxkick>>
    /\ poll' = [poll EXCEPT ![i] = PollReturn(@)]
    /\ RxFrame
    /\ UNCHANGED <<ptfeatures, nm_priv, stats, rx_kring, rx_slot, napi, rx_irq,
                   be_rx, n_rx, rx_expect, rx_dlv>>

PollStep(i) ==
    \/ PollStart(i)
    \/ \E alloc_ok \in BOOLEAN : PollSlot(i, alloc_ok)
    \/ PollArm(i)
    \/ PollComplete(i)
    \/ PollDoubleCheck(i)
    \/ PollPublish(i)
    \/ PollKick(i)

ptnet_rx_poll == \E i \in Pollers : PollStep(i)

(***************************************************************************)
(* ptnet_netpoll: both handlers, called with the interrupt line disabled.  *)
(***************************************************************************)
\* lines 543-552
ptnet_netpoll ==
    /\ TxIntrBody
    /\ RxIntrBody
    /\ UNCHANGED <<ptfeatures, nm_priv, stats, tx_kring, tx_slot, xmit, tx_last,
                   n_xmit, txkick, tx_irq, be_tx, tx_expect, tx_obs, rx_kring,
                   rx_slot, poll, rxkick, rx_irq, be_rx, n_rx, rx_expect,
                   rx_dlv, hdr, ctlvars>>

(***************************************************************************)
(* The host's RX worker: it fills the slots from its hwtail up to the slot *)
(* before the head the guest published, publishes hwtail and only then     *)
(* reads guest_need_rxkick to decide on an interrupt.  Out of slots, it    *)
(* asks for a kick with host_need_rxkick.                                  *)
(***************************************************************************)
RxFree == (csb.rx_ring.head - be_rx.tail - 1 + NSlots) % NSlots

\* payload bytes per slot, and the header record of the first slot
RxShapes ==
    { [lens |-> <<1>>, vh |-> NoVh],
      [lens |-> <<1>>, vh |-> [NoVh EXCEPT !.flags = VIRTIO_NET_HDR_F_NEEDS_CSUM]],
      [lens |-> <<BufSize - VNetHdrLen, VNetHdrLen + 1>>,
       vh |-> [NoVh EXCEPT !.flags = VIRTIO_NET_HDR_F_DATA_VALID]] }

RECURSIVE PlaceSlots(_, _, _, _, _)
PlaceSlots(slot, at, id, lens, done) ==
    IF lens = <<>> THEN slot
    ELSE LET first == done = 0
             hv == first /\ HaveVnetHdr
             s == [len |-> Head(lens) + (IF hv THEN VNetHdrLen ELSE 0),
                   flags |-> IF Len(lens) > 1 THEN NS_MOREFRAG ELSE 0,
                   hdr |-> hv,
                   vh |-> slot[at].vh,
                   data |-> Bytes(id, done, Head(lens))]
         IN  PlaceSlots([slot EXCEPT ![at] = s], nm_next(at, lim), id,
                        Tail(lens), done + Head(lens))

RECURSIVE Sum(_)
Sum(ns) == IF ns = <<>> THEN 0 ELSE Head(ns) + Sum(Tail(ns))

BackendRxProduce(sh) ==
    /\ be_rx.pc = "run"
    /\ n_rx < MaxRxPkts
    /\ Len(sh.lens) <= RxFree
    /\ LET id == PktId(n_rx)
           placed == PlaceSlots(rx_slot, be_rx.tail, id, sh.lens, 0)
       IN  /\ rx_slot' = [placed EXCEPT ![be_rx.tail].vh =
                            IF HaveVnetHdr THEN sh.vh ELSE @]
           /\ rx_expect' = Append(rx_expect,
                                  [bytes |-> Bytes(id, 0, Sum(sh.lens)),
                                   nslots |-> Len(sh.lens)])
    /\ be_rx' = [be_rx EXCEPT !.tail = (@ + Len(sh.lens)) % NSlots]
    /\ n_rx' = n_rx + 1
    /\ RxFrame
    /\ UNCHANGED <<ptfeatures, nm_priv, csb, stats, rx_kring, napi, poll,
                   rxkick, rx_irq, rx_dlv>>

BackendRxPublish ==
    /\ be_rx.pc = "run"
    /\ be_rx.tail # csb.rx_ring.hwtail
    /\ csb' = [csb EXCEPT !.rx_ring.hwtail = be_rx.tail,
                          !.rx_ring.hwcur = csb.rx_ring.head]
    /\ be_rx' = [be_rx EXCEPT !.pc = "notify"]
    /\ RxFrame
    /\ UNCHANGED <<ptfeatures, nm_priv, stats, rx_kring, rx_slot, napi, poll,
                   rxkick, rx_irq, n_rx, rx_expect, rx_dlv>>

BackendRxNotify ==
    /\ be_rx.pc = "notify"
    /\ rx_irq' = (rx_irq \/ csb.guest_need_rxkick = 1)
    /\ be_rx' = [be_rx EXCEPT !.pc = "run"]
    /\ RxFrame
    /\ UNCHANGED <<ptfeatures, nm_priv, csb, stats, rx_kring, rx_slot, napi,
                   poll, rxkick, n_rx, rx_expect, rx_dlv>>

BackendRxWait ==
    /\ be_rx.pc = "run"
    /\ RxFree = 0
    /\ csb.host_need_rxkick = 0
    /\ csb' = [csb EXCEPT !.host_need_rxkick = 1]
    /\ RxFrame
    /\ UNCHANGED <<ptfeatures, nm_priv, stats, rx_kring, rx_slot, napi, poll,
                   rxkick, rx_irq, be_rx, n_rx, rx_expect, rx_dlv>>

BackendRxKicked ==
    /\ rxkick
    /\ rxkick' = FALSE
    /\ csb' = [csb EXCEPT !.host_need_rxkick = 0]
    /\ RxFrame
    /\ UNCHANGED <<ptfeatures, nm_priv, stats, rx_kring, rx_slot, napi, poll,
                   rx_irq, be_rx, n_rx, rx_expect, rx_dlv>>

(***************************************************************************)
(* The header record on its own: lines 162-198 encode the metadata of an   *)
(* outbound sk_buff, lines 453-490 decode it for the inbound one.          *)
(***************************************************************************)
HdrOff == [pc |-> "off", meta |-> NoMeta, headlen |-> 0, vh |-> NoVh,
           out |-> NoMeta]

GsoSizes == {1, 2, 8, 16, 24, 1448}

\* linear lengths that hold every checksum field of HdrMetas
HdrHeadLens == {6, 14}

HdrMetas ==
    { [ip_summed |-> cs[1], csum_start |-> cs[2], csum_offset |-> cs[3],
       gso_size |-> g[1], gso_type |-> g[2]] :
        cs \in {<<CHECKSUM_NONE, 0, 0>>} \cup
               ({CHECKSUM_PARTIAL} \X {0, 2} \X {0, 1}),
        g \in {<<0, 0>>} \cup
              (GsoSizes \X {SKB_GSO_TCPV4, SKB_GSO_UDP, SKB_GSO_TCPV6,
                            SKB_GSO_TCPV4 + SKB_GSO_TCP_ECN,
                            SKB_GSO_TCPV6 + SKB_GSO_TCP_ECN}) }

HdrEncode ==
    /\ hdr.pc = "new"
    /\ LET skb == [NoSkb EXCEPT !.head = Bytes(1, 0, hdr.headlen),
                                !.meta = hdr.meta]
       IN  \E stale \in (IF ReadsStaleGsoType(skb) THEN StaleGsoTypes
                         ELSE {VIRTIO_NET_HDR_GSO_NONE}) :
               hdr' = [hdr EXCEPT !.pc = "encoded", !.vh = EncodeVh(skb, stale)]
    /\ UNCHANGED <<ptfeatures, nm_priv, csb, stats, txvars, rxvars, ctlvars>>

HdrDecode ==
    /\ hdr.pc = "encoded"
    /\ IF /\ BitAnd(hdr.vh.flags, VIRTIO_NET_HDR_F_NEEDS_CSUM) # 0
          /\ ~skb_partial_csum_set_ok(hdr.headlen, hdr.vh.csum_start,
                                      hdr.vh.csum_offset)
       THEN hdr' = [hdr EXCEPT !.pc = "dropped"]
       ELSE hdr' = [hdr EXCEPT !.pc = "decoded", !.out = DecodeVh(TRUE, hdr.vh)]
    /\ UNCHANGED <<ptfeatures, nm_priv, csb, stats, txvars, rxvars, ctlvars>>

(***************************************************************************)
(* The state after ptnet_open: the rings are seeded from the CSB, all TX   *)
(* slots are free, the host's workers sleep and want kicks, RX             *)
(* notifications are enabled.                                              *)
(***************************************************************************)
EmptySlot == [len |-> 0, flags |-> 0, hdr |-> FALSE, vh |-> NoVh, data |-> <<>>]

InitKring(h, t) ==
    [head |-> h, cur |-> h, tail |-> t, nr_hwcur |-> h, nr_hwtail |-> t,
     rhead |-> h, rcur |-> h, rtail |-> t]

InitCsb(txh, rxh) ==
    [tx_ring |-> [head |-> txh, cur |-> txh, hwcur |-> txh,
                  hwtail |-> nm_prev(txh, lim), sync_flags |-> 0],
     rx_ring |-> [head |-> rxh, cur |-> rxh, hwcur |-> rxh, hwtail |-> rxh,
                  sync_flags |-> 0],
     guest_need_txkick |-> 0, guest_need_rxkick |-> 1,
     host_need_txkick |-> 1, host_need_rxkick |-> 1,
     guest_csb_on |-> 1]

InitTx(h) ==
    /\ tx_kring = InitKring(h, nm_prev(h, lim))
    /\ tx_slot = [i \in Slots |-> EmptySlot]
    /\ queue_stopped = FALSE
    /\ xmit = [pc |-> "idle", skb |-> NoSkb]
    /\ tx_last = XmitReturn(NoSkb, "none", h, nm_prev(h, lim), <<>>)
    /\ n_xmit = 0
    /\ txkick = FALSE
    /\ tx_irq = FALSE
    /\ be_tx = [pc |-> "sleep", hwcur |-> h, asm |-> <<>>, first |-> TRUE]
    /\ tx_expect = <<>>
    /\ tx_obs = [count |-> 0, mismatch |-> FALSE]

InitRx(h) ==
    /\ rx_kring = InitKring(h, h)
    /\ rx_slot = [i \in Slots |-> EmptySlot]
    /\ napi = [sched |-> FALSE, by |-> 0]
    /\ poll = [i \in Pollers |-> IdlePoll]
    /\ rxkick = FALSE
    /\ rx_irq = FALSE
    /\ be_rx = [pc |-> "run", tail |-> h]
    /\ n_rx = 0
    /\ rx_expect = <<>>
    /\ rx_dlv = [count |-> 0, bad |-> FALSE,
                 skb |-> [bytes |-> <<>>, meta |-> NoMeta]]

(***************************************************************************)
(* The netmap adapter.  na_flags is the set of the flags that are set;     *)
(* fds holds, for each registration the netmap core committed, the rings   *)
(* it uses (na->active_fds is their number).                               *)
(***************************************************************************)
Rings == {"tx", "rx"}

KringOff == [nr_mode |-> "NKR_NETMAP_OFF", nr_pending_mode |-> "NKR_NETMAP_OFF"]
KringOn == [nr_mode |-> "NKR_NETMAP_ON", nr_pending_mode |-> "NKR_NETMAP_ON"]

nm_kring_pending_on(k) ==
    k.nr_pending_mode = "NKR_NETMAP_ON" /\ k.nr_mode = "NKR_NETMAP_OFF"

nm_kring_pending_off(k) ==
    k.nr_pending_mode = "NKR_NETMAP_OFF" /\ k.nr_mode = "NKR_NETMAP_ON"

active_fds(a) == Len(a.fds)

\* no control operation written yet
NoCtl == <<>>

\* REGIF operations the host accepted and no UNREGIF was written for
RECURSIVE Outstanding(_)
Outstanding(ops) ==
    IF ops = <<>> THEN 0
    ELSE LET o == ops[Len(ops)]
             before == Outstanding(SubSeq(ops, 1, Len(ops) - 1))
         IN  IF o.cmd = "NET_PARAVIRT_PTCTL_REGIF" /\ o.ret = 0 THEN before + 1
             ELSE IF o.cmd = "NET_PARAVIRT_PTCTL_UNREGIF" THEN before - 1
             ELSE before

\* the record of a call of nm_register: its arguments, its return value, the
\* control operations it wrote and the state it started from
RegCall(op, onoff, native, called, ret, wrote, bug, entry) ==
    [op |-> op, onoff |-> onoff, native |-> native, called |-> called,
     ret |-> ret, wrote |-> wrote, bug |-> bug, before |-> entry]

\* the four numbers of a configuration: rings and slots per ring
CfgNums(txr, txd, rxr, rxd) == [txr |-> txr, txd |-> txd, rxr |-> rxr, rxd |-> rxd]

\* no call of ptnet_nm_config is made
NoConfig ==
    [pc |-> "off", csb_attached |-> TRUE, sts |-> 0,
     host |-> CfgNums(0, 0, 0, 0), csb_num |-> CfgNums(0, 0, 0, 0),
     out |-> CfgNums(0, 0, 0, 0), ret |-> 0, ops |-> <<>>]

\* the interface is open: ptnet_open registered it, exclusively
NaOpen ==
    [na_flags |-> {"NAF_HOST_RINGS", "NAF_NATIVE", "NAF_NETMAP_ON"},
     nm_register |-> "netif",
     fds |-> <<[rings |-> Rings, excl |-> TRUE, netif |-> TRUE]>>,
     kring |-> [r \in Rings |-> KringOn],
     na_refcount |-> 2]

InitUp ==
    /\ na = NaOpen
    /\ host_reg = <<[cmd |-> "NET_PARAVIRT_PTCTL_REGIF", ret |-> 0]>>
    /\ reg_last = RegCall("none", FALSE, FALSE, FALSE, 0, <<>>, FALSE,
                          [na |-> NaOpen, tx_kring |-> tx_kring,
                           rx_kring |-> rx_kring])
    /\ cl = [pc |-> "open"]
    /\ cfg = NoConfig

Features == {NET_PTN_FEATURES_BASE,
             NET_PTN_FEATURES_BASE + NET_PTN_FEATURES_VNET_HDR}

NoStats == [tx_bytes |-> 0, tx_packets |-> 0, tx_dropped |-> 0,
            rx_bytes |-> 0, rx_packets |-> 0]

Init ==
    /\ ptfeatures \in Features
    /\ nm_priv = TRUE
    /\ InitTx(lim)
    /\ InitRx(lim)
    /\ InitUp
    /\ csb = InitCsb(lim, lim)
    /\ stats = NoStats
    /\ hdr = HdrOff

vars == <<ptfeatures, nm_priv, csb, stats, txvars, rxvars, hdr, ctlvars>>

(***************************************************************************)
(* The TX side with its host worker.                                       *)
(***************************************************************************)
Next ==
    \/ ptnet_start_xmit
    \/ XmitPublish
    \/ XmitKick
    \/ XmitStop
    \/ XmitDoubleCheck
    \/ ptnet_tx_intr
    \/ BackendTxKicked
    \/ BackendTxConsume
    \/ BackendTxPublish
    \/ BackendTxNotify
    \/ BackendTxIdle
    \/ BackendTxRecheck

Spec == Init /\ [][Next]_vars

(***************************************************************************)
(* The RX side with its host worker.                                       *)
(***************************************************************************)
NextRx ==
    \/ ptnet_rx_intr
    \/ ptnet_rx_poll
    \/ \E sh \in RxShapes : BackendRxProduce(sh)
    \/ BackendRxPublish
    \/ BackendRxNotify
    \/ BackendRxWait
    \/ BackendRxKicked

SpecRx == Init /\ [][NextRx]_vars

\* the softirq runs a scheduled poll, an interrupt raised is delivered, the
\* host decides on the interrupt once it has published
SpecRxFair ==
    /\ SpecRx
    /\ \A i \in Pollers : WF_vars(PollStep(i))
    /\ WF_vars(ptnet_rx_intr)
    /\ WF_vars(BackendRxNotify)

(***************************************************************************)
(* The copy loops alone: one packet of every shape on a ring without       *)
(* header records, from every position of head.                            *)
(***************************************************************************)
FillShapes ==
    {1, BufSize - 1, BufSize, BufSize + 1, 2 * BufSize, 2 * BufSize + 1,
     3 * BufSize}
    \X {<<>>, <<1>>, <<BufSize>>, <<BufSize + 1>>, <<1, BufSize>>,
        <<BufSize, BufSize>>}

InitFill ==
    /\ ptfeatures = NET_PTN_FEATURES_BASE
    /\ nm_priv = TRUE
    /\ \E h \in Slots : InitTx(h) /\ csb = InitCsb(h, lim)
    /\ InitRx(lim)
    /\ InitUp
    /\ stats = NoStats
    /\ hdr = HdrOff

FillOnce ==
    /\ n_xmit = 0
    /\ \E sh \in FillShapes, more \in BOOLEAN :
          XmitStart(MkSkb(1, sh[1], sh[2], NoMeta, more), VIRTIO_NET_HDR_GSO_NONE)

NextFill ==
    \/ FillOnce
    \/ XmitPublish
    \/ XmitKick
    \/ XmitStop
    \/ XmitDoubleCheck

SpecFill == InitFill /\ [][NextFill]_vars

(***************************************************************************)
(* The ring without its host: single-slot packets until it is full, the    *)
(* queue woken by ptnet_netpoll.                                           *)
(***************************************************************************)
CapLens == {1, BufSize - VNetHdrLen}

InitCap ==
    /\ ptfeatures \in Features
    /\ nm_priv = TRUE
    /\ \E h \in Slots : InitTx(h) /\ csb = InitCsb(h, lim)
    /\ InitRx(lim)
    /\ InitUp
    /\ stats = NoStats
    /\ hdr = HdrOff

CapXmit ==
    \E n \in CapLens, more \in BOOLEAN :
        XmitStart(MkSkb(PktId(n_xmit), n, <<>>, NoMeta, more),
                  VIRTIO_NET_HDR_GSO_NONE)

NextCap ==
    \/ CapXmit
    \/ XmitPublish
    \/ XmitKick
    \/ XmitStop
    \/ XmitDoubleCheck
    \/ ptnet_netpoll

SpecCap == InitCap /\ [][NextCap]_vars

(***************************************************************************)
(* The header record, for every metadata.                                  *)
(***************************************************************************)
InitHdr ==
    /\ ptfeatures = NET_PTN_FEATURES_BASE + NET_PTN_FEATURES_VNET_HDR
    /\ nm_priv = TRUE
    /\ InitTx(lim)
    /\ InitRx(lim)
    /\ InitUp
    /\ csb = InitCsb(lim, lim)
    /\ stats = NoStats
    /\ \E m \in HdrMetas, hl \in HdrHeadLens :
          hdr = [HdrOff EXCEPT !.pc = "new", !.meta = m, !.headlen = hl]

NextHdr == HdrEncode \/ HdrDecode

SpecHdr == InitHdr /\ [][NextHdr]_vars

(***************************************************************************)
(* Properties.                                                             *)
(***************************************************************************)
\* the host has consumed every slot up to the published head
TxDrained == xmit.pc = "idle" /\ be_tx.hwcur = csb.tx_ring.head

\* C1: the host observes as many packets as ptnet_start_xmit accepted, and
\* each with the bytes of the packet submitted: no packet it put together
\* differs from the oldest accepted one, and once it has consumed all that
\* is published no accepted packet is left unobserved.
C1_TxDelivery ==
    /\ ~tx_obs.mismatch
    /\ TxDrained => tx_expect = <<>>

\* slot idx lies in the free range that starts at h and ends before t
InFreeRange(idx, h, t) ==
    (idx - h + NSlots) % NSlots < (t - h + NSlots) % NSlots

\* C2: every slot a ptnet_start_xmit call fills lies between the head it
\* started from and the tail it pulled: head does not reach or pass tail
\* in the middle of a packet.
C2_FillInFreeRange ==
    \A j \in 1 .. Len(tx_last.log) :
        InFreeRange(tx_last.log[j].idx, tx_last.old_head, tx_last.old_tail)

\* the queue is stopped, slots are published that the host did not process,
\* the host waits for a kick, and no kick and no interrupt is on its way
TxStalled ==
    /\ queue_stopped
    /\ xmit.pc = "idle"
    /\ be_tx.hwcur # csb.tx_ring.head
    /\ be_tx.pc = "sleep"
    /\ csb.host_need_txkick = 1
    /\ ~txkick
    /\ ~tx_irq

\* C4: the TX kick protocol does not stall, whatever xmit_more the packets
\* carry: no state has the queue stopped, published slots unprocessed,
\* host_need_txkick set and no TXKICK written for them.
C4_NoTxStall == ~TxStalled

\* slots the host published that ptnet_rx_poll did not consume
RxPending == rx_kring.head # csb.rx_ring.hwtail

\* a poll is scheduled or about to check again, or an interrupt is raised
\* or about to be
RxWakeupOnWay ==
    \/ napi.sched
    \/ \E i \in Pollers : poll[i].pc \in {"complete", "dblchk"}
    \/ rx_irq
    \/ be_rx.pc = "notify" /\ csb.guest_need_rxkick = 1

\* the step of ptnet_rx_poll that pulls a second time
RxSecondPull(i) == poll[i].pc = "dblchk" /\ poll'[i].pc # "dblchk"

\* C3: with a host that publishes hwtail and then reads guest_need_rxkick,
\* slots published between the last head # tail check of the loop and the
\* arming of guest_need_rxkick are seen by the second pull, which leaves
\* the poll scheduled; pending slots never wait for a notification that is
\* not on its way, and every published slot is eventually consumed.
C3_RxNoLostWakeup ==
    /\ [][\A i \in Pollers :
            (RxSecondPull(i) /\ csb.rx_ring.hwtail # rx_kring.head) =>
                /\ rx_kring'.tail = csb.rx_ring.hwtail
                /\ napi'.sched]_vars
    /\ [](RxPending => RxWakeupOnWay)
    /\ RxPending ~> ~RxPending

\* the second pull saw slots published after the loop's last check and
\* scheduled the poll again by itself
C3_SecondPullFoundWork ==
    \E i \in Pollers :
        /\ poll[i].raced
        /\ poll[i].pc \in {"publish", "kick"}
        /\ napi.sched
        /\ napi.by = i

\* the step of ptnet_start_xmit that pulls a second time and returns
TxSecondPull == xmit.pc = "dblchk" /\ xmit'.pc = "idle"

\* C5: a ptnet_start_xmit call that found the ring full has stopped the
\* queue and set guest_need_txkick before it pulls a second time; if the
\* second pull shows a free slot it restarts the queue and clears the flag,
\* else it leaves both; it returns with the queue stopped only with
\* guest_need_txkick = 1 and head = tail after the second pull.
C5_TxDoubleCheck ==
    /\ [](xmit.pc = "dblchk" => csb.guest_need_txkick = 1)
    /\ [][TxSecondPull =>
            IF csb.tx_ring.hwtail # tx_kring.head
            THEN ~queue_stopped' /\ csb'.guest_need_txkick = 0
            ELSE queue_stopped' = queue_stopped /\ csb'.guest_need_txkick = 1]_vars
    /\ [][xmit.pc # "idle" /\ xmit'.pc = "idle" /\ queue_stopped' =>
            /\ csb'.guest_need_txkick = 1
            /\ tx_kring'.tail = csb.tx_ring.hwtail
            /\ tx_kring'.head = tx_kring'.tail]_vars

\* the second pull found a slot the host released after the first check
C5_SecondPullFoundSpace ==
    /\ xmit.pc = "idle"
    /\ tx_last.dblchk = "space"
    /\ ~queue_stopped
    /\ csb.guest_need_txkick = 0

\* C6: a ptnet_start_xmit call that finds no free slot returns a result
\* that differs from the result of an accepted packet, and counts the drop.
C6_RingFullSignalled ==
    tx_last.outcome = "dropped" =>
        /\ tx_last.ret # NETDEV_TX_OK
        /\ stats.tx_dropped > 0

\* the metadata the decoder sets, SKB_GSO_DODGY apart, is the encoder's
SameMeta(m, out) ==
    /\ out.ip_summed = m.ip_summed
    /\ out.csum_start = m.csum_start
    /\ out.csum_offset = m.csum_offset
    /\ out.gso_size = m.gso_size
    /\ BitClear(out.gso_type, SKB_GSO_DODGY) = m.gso_type

\* C7: the header record ptnet_start_xmit writes for a packet, decoded as
\* ptnet_rx_poll decodes it, gives the packet's checksum and segmentation
\* metadata back, for every segmentation type, ECN bit, segment size and
\* checksum start and offset.
C7_HdrRoundTrip == hdr.pc = "decoded" => SameMeta(hdr.meta, hdr.out)

\* ceil(n / BufSize)
SlotsFor(n) == (n + BufSize - 1) \div BufSize

\* entry j of m in the log of a packet of L bytes filled from old_head
FillEntry(j, m, L, old_head) ==
    [idx |-> (old_head + j - 1) % NSlots,
     len |-> IF j < m THEN BufSize ELSE L - (m - 1) * BufSize,
     flags |-> IF j < m THEN NS_MOREFRAG ELSE 0]

\* C8: without header record, an accepted packet of L > 0 bytes fills
\* ceil(L / BufSize) consecutive slots from the old head, all but the last
\* with BufSize bytes and NS_MOREFRAG, the last without flag and not empty,
\* and head = cur = (old head + ceil(L / BufSize)) mod NSlots; the slots
\* hold the packet's bytes in order.
C8_FillSlotCount ==
    (~HaveVnetHdr /\ tx_last.outcome \in {"running", "accepted"}) =>
        LET L == skb_len(tx_last.skb)
            m == SlotsFor(L)
            log == tx_last.log
        IN  /\ Len(log) = m
            /\ \A j \in 1 .. m :
                  /\ log[j] = FillEntry(j, m, L, tx_last.old_head)
                  /\ log[j].len > 0
                  /\ j > m - NSlots =>
                       /\ tx_slot[log[j].idx].len = log[j].len
                       /\ tx_slot[log[j].idx].flags = log[j].flags
                       /\ tx_slot[log[j].idx].data =
                            SubSeq(SkbBytes(tx_last.skb), (j - 1) * BufSize + 1,
                                   (j - 1) * BufSize + log[j].len)
            /\ tx_kring.head = (tx_last.old_head + m) % NSlots
            /\ tx_kring.cur = tx_kring.head

\* a packet of exactly two buffers has been accepted
C8_ExactMultipleFilled ==
    /\ ~HaveVnetHdr
    /\ tx_last.outcome = "accepted"
    /\ skb_len(tx_last.skb) = 2 * BufSize
    /\ tx_last.skb.frags # <<>>
    /\ Len(tx_last.log) = 2

\* C9: with every slot free at the start and the host never moving hwtail,
\* ptnet_start_xmit accepts NSlots - 1 single-slot packets and drops each
\* later one; it drops only when head = tail after the pull.
C9_Capacity ==
    /\ csb.tx_ring.hwtail = tx_last.old_tail
    /\ xmit.pc = "idle" =>
          /\ stats.tx_packets = Min(n_xmit, NSlots - 1)
          /\ n_xmit > NSlots - 1 => tx_last.outcome = "dropped"
    /\ tx_last.outcome = "dropped" =>
          /\ tx_last.old_head = tx_last.old_tail
          /\ n_xmit > NSlots - 1
    /\ tx_last.outcome \in {"running", "accepted"} =>
          tx_last.old_head # tx_last.old_tail

\* the packet after the NSlots - 1 accepted ones has been dropped
C9_FullRingDrops ==
    /\ xmit.pc = "idle"
    /\ n_xmit = NSlots
    /\ tx_last.outcome = "dropped"
    /\ stats.tx_packets = NSlots - 1

\* C10: ptnet_rx_poll delivers a packet the host placed in k slots once, as
\* one packet with the payload of the k slots: what it delivers is the
\* oldest packet not yet consumed, whole.
C10_RxReassembly == ~rx_dlv.bad


(***************************************************************************)
(* Registration: ptnet_nm_ptctl and ptnet_nm_register_common, called by    *)
(* the netmap core (netmap_do_regif, netmap_do_unregif) with the rings of  *)
(* the request marked pending.                                             *)
(***************************************************************************)
MaxCtl == 4     \* control operations written in one behaviour
MaxFds == 2     \* registrations held at once

\* what PTNET_IO_PTSTS can answer: 0, or an error number
PtctlResults == {0, 22}

\* the ring sub-blocks the host can write into the CSB when it accepts
\* REGIF: its rings are where their last user left them, here with one slot
\* the host has not taken yet (hwcur behind head) and one slot it gave back
HostRing(h) ==
    [head |-> h, cur |-> h, hwcur |-> nm_prev(h, lim),
     hwtail |-> nm_next(h, lim), sync_flags |-> 0]

HostRings ==
    {[tx |-> HostRing(h), rx |-> HostRing(nm_next(h, lim))] : h \in Slots}

\* write the command, read the status back
ptnet_nm_ptctl(ops, cmd, sts) ==
    [ops |-> Append(ops, [cmd |-> cmd, ret |-> sts]), ret |-> sts]

nm_set_native_flags(a) ==
    [a EXCEPT !.na_flags = @ \cup {"NAF_NETMAP_ON"}]

nm_clear_native_flags(a) ==
    [a EXCEPT !.na_flags = @ \ {"NAF_NETMAP_ON"}]

\* the adapter, rings, CSB and operation log a register call works on
RegState(a, txk, rxk, c, ops) ==
    [na |-> a, tx_kring |-> txk, rx_kring |-> rxk, csb |-> c, ops |-> ops,
     ret |-> 0, bug |-> FALSE, called |-> FALSE,
     entry |-> [na |-> a, tx_kring |-> txk, rx_kring |-> rxk]]

\* kring->rhead = ring->head = ptring->head, ..., ring->tail = ptring->hwtail
SeedSkipsTail(ptring, kring) ==
    [kring EXCEPT !.rhead = ptring.head, !.head = ptring.head,
                  !.rcur = ptring.cur, !.cur = ptring.cur,
                  !.nr_hwcur = ptring.hwcur, !.nr_hwtail = ptring.hwtail]

SeedKring(ptring, kring) ==
    [kring EXCEPT !.rhead = ptring.head, !.head = ptring.head,
                  !.rcur = ptring.cur, !.cur = ptring.cur,
                  !.nr_hwcur = ptring.hwcur, !.nr_hwtail = ptring.hwtail,
                  !.rtail = ptring.hwtail, !.tail = ptring.hwtail]

\* the register branch after the host accepted REGIF and wrote hcsb
RegisterOn(s, native, hcsb) ==
    LET on(r) == nm_kring_pending_on(s.na.kring[r])
        a1 == [s.na EXCEPT !.kring =
                  [r \in Rings |->
                      IF on(r) THEN [@[r] EXCEPT !.nr_mode = "NKR_NETMAP_ON"]
                      ELSE @[r]]]
    IN  [s EXCEPT
           !.csb = hcsb,
           !.tx_kring = IF on("tx") THEN SeedKring(hcsb.tx_ring, @) ELSE @,
           !.rx_kring = IF on("rx") THEN SeedKring(hcsb.rx_ring, @) ELSE @,
           !.na = IF native THEN nm_set_native_flags(a1)
                  ELSE [a1 EXCEPT !.na_flags = @ \cup {"NAF_NETMAP_ON"}]]

\* the unregister branch up to the UNREGIF write
RegisterOff(s, native) ==
    LET off(r) == nm_kring_pending_off(s.na.kring[r])
        a1 == IF native THEN nm_clear_native_flags(s.na)
              ELSE [s.na EXCEPT !.na_flags = @ \cap {"NAF_NETMAP_ON"}]
    IN  [s EXCEPT !.na = [a1 EXCEPT !.kring =
                     [r \in Rings |->
                         IF off(r) THEN [@[r] EXCEPT !.nr_mode = "NKR_NETMAP_OFF"]
                         ELSE @[r]]]]

\* ptnet_nm_register_common without lines 814-820
RegisterCommonAlways(s, onoff, native, sts, htx, hrx) ==
    IF onoff
    THEN LET c == ptnet_nm_ptctl(s.ops, "NET_PARAVIRT_PTCTL_REGIF", sts)
             s1 == [s EXCEPT !.ops = c.ops, !.ret = c.ret]
         IN  IF c.ret # 0 THEN s1
             ELSE RegisterOn(s1, native,
                             [s.csb EXCEPT !.tx_ring = htx, !.rx_ring = hrx])
    ELSE LET s1 == RegisterOff(s, native)
             c == ptnet_nm_ptctl(s1.ops, "NET_PARAVIRT_PTCTL_UNREGIF", sts)
         IN  [s1 EXCEPT !.ops = c.ops, !.ret = c.ret]

\* sts is the answer of PTSTS, htx and hrx what the host puts in the CSB
ptnet_nm_register_common(s, onoff, native, sts, htx, hrx) ==
    IF active_fds(s.na) > 0
    THEN IF ~native THEN [s EXCEPT !.bug = TRUE] ELSE [s EXCEPT !.ret = 0]
    ELSE IF onoff
    THEN LET c == ptnet_nm_ptctl(s.ops, "NET_PARAVIRT_PTCTL_REGIF", sts)
             s1 == [s EXCEPT !.ops = c.ops, !.ret = c.ret]
         IN  IF c.ret # 0 THEN s1
             ELSE RegisterOn(s1, native,
                             [s.csb EXCEPT !.tx_ring = htx, !.rx_ring = hrx])
    ELSE LET s1 == RegisterOff(s, native)
             c == ptnet_nm_ptctl(s1.ops, "NET_PARAVIRT_PTCTL_UNREGIF", sts)
         IN  [s1 EXCEPT !.ops = c.ops, !.ret = c.ret]

ptnet_nm_register_netif(s, onoff, sts, htx, hrx) ==
    ptnet_nm_register_common(s, onoff, FALSE, sts, htx, hrx)

ptnet_nm_register_native(s, onoff, sts, htx, hrx) ==
    ptnet_nm_register_common(s, onoff, TRUE, sts, htx, hrx)

\* na->nm_register(na, onoff)
nm_register(s, onoff, sts, htx, hrx) ==
    LET s0 == [s EXCEPT !.called = TRUE,
                        !.entry = [na |-> s.na, tx_kring |-> s.tx_kring,
                                   rx_kring |-> s.rx_kring]]
    IN  IF s.na.nm_register = "native"
        THEN ptnet_nm_register_native(s0, onoff, sts, htx, hrx)
        ELSE ptnet_nm_register_netif(s0, onoff, sts, htx, hrx)

(***************************************************************************)
(* The netmap core around nm_register.  A registration asks for the rings  *)
(* of the adapter, as ptnet_open does with NR_REG_ALL_NIC; every request   *)
(* and every release reaches nm_register, which finds in active_fds the    *)
(* registrations that are committed.                                       *)
(***************************************************************************)
\* registrations using ring r
users(a, r) == Cardinality({j \in 1..Len(a.fds) : r \in a.fds[j].rings})

\* a request for the rings want cannot be granted
KringsBusy(a, want, excl) ==
    \E r \in want :
        \/ excl /\ users(a, r) > 0
        \/ \E j \in 1..Len(a.fds) : r \in a.fds[j].rings /\ a.fds[j].excl

\* netmap_krings_get: the rings of the request will be on
netmap_krings_get(a, want) ==
    [a EXCEPT !.kring = [r \in Rings |->
        IF r \in want THEN [@[r] EXCEPT !.nr_pending_mode = "NKR_NETMAP_ON"]
        ELSE @[r]]]

\* netmap_krings_put: a ring nobody uses any more will be off
netmap_krings_put(a, want) ==
    [a EXCEPT !.kring = [r \in Rings |->
        IF r \in want /\ users(a, r) = 0
        THEN [@[r] EXCEPT !.nr_pending_mode = "NKR_NETMAP_OFF"]
        ELSE @[r]]]

RemoveAt(q, j) == SubSeq(q, 1, j - 1) \o SubSeq(q, j + 1, Len(q))

\* the outcome of netmap_do_regif for the rings want: the state after it,
\* with ret # 0 when the registration was refused
netmap_do_regif(s, want, excl, netif, sts, htx, hrx) ==
    LET a0 == netmap_krings_get(s.na, want)
        s0 == [s EXCEPT !.na = a0]
        r  == nm_register(s0, TRUE, sts, htx, hrx)
    IN  IF r.bug THEN r
        ELSE IF r.ret # 0
        THEN [r EXCEPT !.na = netmap_krings_put(r.na, want)]
        ELSE [r EXCEPT !.na.fds = Append(@, [rings |-> want, excl |-> excl,
                                             netif |-> netif])]

\* netmap_do_unregif of registration j
netmap_do_unregif(s, j, sts, htx, hrx) ==
    LET want == s.na.fds[j].rings
        a0 == netmap_krings_put([s.na EXCEPT !.fds = RemoveAt(@, j)], want)
        s0 == [s EXCEPT !.na = a0]
    IN  nm_register(s0, FALSE, sts, htx, hrx)

\* the state a call starts from, and the assignment of the state it ends in
RegNow == RegState(na, tx_kring, rx_kring, csb, host_reg)

\* a BUG_ON that fired stops the kernel where it is
RegCommit(r, op, onoff) ==
    /\ na' = IF r.bug THEN na ELSE r.na
    /\ tx_kring' = r.tx_kring
    /\ rx_kring' = r.rx_kring
    /\ host_reg' = r.ops
    /\ reg_last' = RegCall(op, onoff, r.entry.na.nm_register = "native",
                           r.called, r.ret,
                           SubSeq(r.ops, Len(host_reg) + 1, Len(r.ops)),
                           r.bug, r.entry)

RegFrame ==
    UNCHANGED <<ptfeatures, stats, tx_slot, xmit, tx_last, n_xmit, txkick,
                tx_irq, be_tx, tx_expect, tx_obs, rx_slot, poll, rxkick,
                rx_irq, be_rx, n_rx, rx_expect, rx_dlv, hdr, cfg>>

RegIdle == ~reg_last.bug /\ Len(host_reg) < MaxCtl

\* NIOCREGIF of an application
RegisterApp(sts, htx, hrx) ==
    /\ RegIdle
    /\ active_fds(na) < MaxFds
    /\ ~KringsBusy(na, Rings, FALSE)
    /\ LET r == netmap_do_regif(RegNow, Rings, FALSE, FALSE, sts, htx, hrx)
       IN  /\ RegCommit(r, "register", TRUE)
           /\ csb' = r.csb
    /\ RegFrame
    /\ UNCHANGED <<nm_priv, queue_stopped, napi, cl>>

\* the application holding registration j closes its descriptor
UnregisterApp(j, sts) ==
    /\ RegIdle
    /\ j \in 1..active_fds(na)
    /\ ~na.fds[j].netif
    /\ LET r == netmap_do_unregif(RegNow, j, sts, csb.tx_ring, csb.rx_ring)
       IN  /\ RegCommit(r, "unregister", FALSE)
           /\ csb' = r.csb
    /\ RegFrame
    /\ UNCHANGED <<nm_priv, queue_stopped, napi, cl>>

(***************************************************************************)
(* ptnet_open and ptnet_close.                                             *)
(***************************************************************************)
MaxRefs == 3  \* references to the adapter a behaviour may hold

ENOMEM == 12

netmap_adapter_get(a) == [a EXCEPT !.na_refcount = @ + 1]
netmap_adapter_put(a) == [a EXCEPT !.na_refcount = @ - 1]

\* lines 672-729; priv_ok: netmap_priv_new() returned a structure
ptnet_open(priv_ok, sts, htx, hrx) ==
    /\ RegIdle
    /\ cl.pc = "closed"
    /\ na.na_refcount < MaxRefs
    /\ nm_priv' = priv_ok
    /\ LET got == [RegNow EXCEPT !.na = netmap_adapter_get(@)]
           s0 == [got EXCEPT !.na.nm_register = "netif"]
       IN  IF ~priv_ok
           THEN /\ na' = got.na
                /\ reg_last' = RegCall("open", TRUE, FALSE, FALSE, ENOMEM,
                                       <<>>, FALSE, got.entry)
                /\ UNCHANGED <<tx_kring, rx_kring, host_reg, csb,
                               queue_stopped, napi, cl>>
           ELSE IF KringsBusy(na, Rings, TRUE)
           THEN /\ na' = netmap_adapter_put(s0.na)
                /\ reg_last' = RegCall("open", TRUE, FALSE, FALSE, 16, <<>>,
                                       FALSE, s0.entry)
                /\ UNCHANGED <<tx_kring, rx_kring, host_reg, csb,
                               queue_stopped, napi, cl>>
           ELSE LET r0 == netmap_do_regif(s0, Rings, TRUE, TRUE, sts, htx, hrx)
                    r == IF r0.ret = 0 /\ ~r0.bug THEN r0
                         ELSE [r0 EXCEPT !.na = netmap_adapter_put(@)]
                IN  /\ RegCommit(r, "open", TRUE)
                    /\ IF r.ret = 0 /\ ~r.bug
                       THEN /\ napi' = [sched |-> FALSE, by |-> 0]
                            /\ queue_stopped' = FALSE
                            /\ csb' = [r.csb EXCEPT !.guest_csb_on = 1]
                            /\ cl' = [pc |-> "open"]
                       ELSE /\ csb' = r.csb
                            /\ UNCHANGED <<queue_stopped, napi, cl>>
    /\ RegFrame

CloseFrame ==
    UNCHANGED <<ptfeatures, stats, tx_kring, tx_slot, xmit, tx_last, n_xmit,
                txkick, tx_irq, be_tx, tx_expect, tx_obs, rx_kring, rx_slot,
                poll, rxkick, rx_irq, be_rx, n_rx, rx_expect, rx_dlv, hdr,
                na, host_reg, reg_last, cfg>>

\* line 752
CloseCsbOff ==
    /\ cl.pc = "open"
    /\ csb' = [csb EXCEPT !.guest_csb_on = 0]
    /\ cl' = [pc |-> "csb_off"]
    /\ CloseFrame
    /\ UNCHANGED <<nm_priv, queue_stopped, napi>>

\* line 754: netif_tx_disable() takes the transmit lock of the queue, which
\* a running ptnet_start_xmit holds, and stops the queue
CloseTxDisable ==
    /\ cl.pc = "csb_off"
    /\ xmit.pc = "idle"
    /\ queue_stopped' = TRUE
    /\ cl' = [pc |-> "tx_off"]
    /\ CloseFrame
    /\ UNCHANGED <<nm_priv, csb, napi>>

\* line 755: napi_disable() waits for NAPI_STATE_SCHED to be clear and takes
\* it; line 756, synchronize_irq(), is commented out
CloseNapiDisable ==
    /\ cl.pc = "tx_off"
    /\ ~napi.sched
    /\ napi' = [sched |-> TRUE, by |-> 0]
    /\ cl' = [pc |-> "napi_off"]
    /\ CloseFrame
    /\ UNCHANGED <<nm_priv, csb, queue_stopped>>

\* lines 758-761
CloseUnregif(sts) ==
    /\ cl.pc = "napi_off"
    /\ ~reg_last.bug
    /\ \E j \in 1..active_fds(na) :
          /\ na.fds[j].netif
          /\ LET r == netmap_do_unregif(RegNow, j, sts, csb.tx_ring,
                                        csb.rx_ring)
             IN  /\ na' = [r.na EXCEPT !.nm_register = "native"]
                 /\ tx_kring' = r.tx_kring
                 /\ rx_kring' = r.rx_kring
                 /\ csb' = r.csb
                 /\ host_reg' = r.ops
                 /\ reg_last' = RegCall("close", FALSE, FALSE, r.called, r.ret,
                                        SubSeq(r.ops, Len(host_reg) + 1,
                                               Len(r.ops)),
                                        r.bug, r.entry)
    /\ cl' = [pc |-> "unreg"]
    /\ RegFrame
    /\ UNCHANGED <<nm_priv, queue_stopped, napi>>

\* lines 763-765
CloseRelease ==
    /\ cl.pc = "unreg"
    /\ nm_priv' = FALSE
    /\ na' = netmap_adapter_put(na)
    /\ cl' = [pc |-> "closed"]
    /\ RegFrame
    /\ UNCHANGED <<tx_kring, rx_kring, host_reg, reg_last, csb,
                   queue_stopped, napi>>

ptnet_close ==
    \/ CloseCsbOff
    \/ CloseTxDisable
    \/ CloseNapiDisable
    \/ \E sts \in PtctlResults : CloseUnregif(sts)
    \/ CloseRelease

(***************************************************************************)
(* Registration on its own: the interface is down and not registered,      *)
(* applications register and unregister rings, the interface is opened     *)
(* and closed.                                                             *)
(***************************************************************************)
NaFlagsAttach == {"NAF_HOST_RINGS", "NAF_NATIVE"}

NaClosed ==
    [na_flags |-> NaFlagsAttach, nm_register |-> "native", fds |-> <<>>,
     kring |-> [r \in Rings |-> KringOff],
     na_refcount |-> 1]

InitReg ==
    /\ ptfeatures \in Features
    /\ nm_priv = FALSE
    /\ InitTx(lim)
    /\ InitRx(lim)
    /\ csb = [InitCsb(lim, lim) EXCEPT !.guest_csb_on = 0]
    /\ stats = NoStats
    /\ hdr = HdrOff
    /\ na = NaClosed
    /\ host_reg = NoCtl
    /\ reg_last = RegCall("none", FALSE, FALSE, FALSE, 0, <<>>, FALSE,
                          [na |-> NaClosed, tx_kring |-> tx_kring,
                           rx_kring |-> rx_kring])
    /\ cl = [pc |-> "closed"]
    /\ cfg = NoConfig

NextReg ==
    \/ \E sts \in PtctlResults, h \in HostRings :
            RegisterApp(sts, h.tx, h.rx)
    \/ \E j \in 1..MaxFds, sts \in PtctlResults : UnregisterApp(j, sts)
    \/ \E priv_ok \in BOOLEAN, sts \in PtctlResults, h \in HostRings :
            ptnet_open(priv_ok, sts, h.tx, h.rx)
    \/ ptnet_close

SpecReg == InitReg /\ [][NextReg]_vars


(***************************************************************************)
(* Properties of the registration.                                         *)
(***************************************************************************)
Cursors(k) == <<k.head, k.cur, k.tail, k.nr_hwcur, k.nr_hwtail>>

RingModes(a) == [r \in Rings |-> a.kring[r].nr_mode]

\* the last nm_register call was a register request that found a
\* registration of its own mode active
SameModeRegister ==
    /\ reg_last.called
    /\ reg_last.onoff
    /\ reg_last.native
    /\ active_fds(reg_last.before.na) > 0

CtlFailed ==
    /\ reg_last.called
    /\ reg_last.wrote # <<>>
    /\ reg_last.wrote[Len(reg_last.wrote)].ret # 0

ModeFlags(a) == a.na_flags \cap {"NAF_NETMAP_ON", "NAF_NATIVE"}

\* C12: when the host answers a control operation of a register or an
\* unregister call with a failure, the call returns that value and the ring
\* modes, the ring cursors and the netmap-on/native flags are what they were
\* before the call
C12_FailureKeepsState ==
    CtlFailed =>
        /\ reg_last.ret = reg_last.wrote[Len(reg_last.wrote)].ret
        /\ RingModes(na) = RingModes(reg_last.before.na)
        /\ Cursors(tx_kring) = Cursors(reg_last.before.tx_kring)
        /\ Cursors(rx_kring) = Cursors(reg_last.before.rx_kring)
        /\ ModeFlags(na) = ModeFlags(reg_last.before.na)

\* the same for REGIF alone
RegifFailureKeepsState == (CtlFailed /\ reg_last.onoff) => C12_FailureKeepsState

RingOf(r) == IF r = "tx" THEN tx_kring ELSE rx_kring
CsbRingOf(r) == IF r = "tx" THEN csb.tx_ring ELSE csb.rx_ring

SeededFrom(ptring, k) ==
    /\ k.head = ptring.head
    /\ k.cur = ptring.cur
    /\ k.nr_hwcur = ptring.hwcur
    /\ k.nr_hwtail = ptring.hwtail
    /\ k.tail = ptring.hwtail

\* the last nm_register call made ring r active
BecameActive(r) ==
    /\ reg_last.called
    /\ reg_last.before.na.kring[r].nr_mode = "NKR_NETMAP_OFF"
    /\ na.kring[r].nr_mode = "NKR_NETMAP_ON"

\* C15: a ring that is active has head, cur, hwcur, hwtail and tail equal to
\* the values of its CSB sub-block after the handshake, and it became active
\* in a register call whose REGIF the host accepted
C15_ActiveRingsSeeded ==
    \A r \in Rings :
        /\ na.kring[r].nr_mode = "NKR_NETMAP_ON" =>
              SeededFrom(CsbRingOf(r), RingOf(r))
        /\ BecameActive(r) =>
              /\ reg_last.onoff
              /\ reg_last.wrote =
                    <<[cmd |-> "NET_PARAVIRT_PTCTL_REGIF", ret |-> 0]>>

C15_RingSeeded ==
    /\ BecameActive("tx")
    /\ BecameActive("rx")
    /\ Cursors(tx_kring) # Cursors(reg_last.before.tx_kring)
    /\ tx_kring.head # tx_kring.nr_hwcur
    /\ tx_kring.head # tx_kring.tail

\* the last nm_register call was an unregister with no registration left
LastUnregister ==
    /\ reg_last.called
    /\ ~reg_last.onoff
    /\ ~reg_last.bug
    /\ active_fds(reg_last.before.na) = 0

Unregistered ==
    /\ reg_last.wrote \in {<<[cmd |-> "NET_PARAVIRT_PTCTL_UNREGIF", ret |-> s]>> :
                              s \in PtctlResults}
    /\ \A r \in Rings :
          nm_kring_pending_off(reg_last.before.na.kring[r]) =>
              na.kring[r].nr_mode = "NKR_NETMAP_OFF"
    /\ "NAF_NETMAP_ON" \notin na.na_flags
    /\ na.na_flags \ {"NAF_NETMAP_ON"} =
           reg_last.before.na.na_flags \ {"NAF_NETMAP_ON"}

\* C16: after an unregister call with no other registration active, native
\* or netif, UNREGIF has been written once, every ring that was pending off
\* is inactive, the netmap-on flag is clear and the other flags of the
\* adapter are what they were
C16_Unregistered == LastUnregister => Unregistered

\* the same for the native mode alone
NativeUnregistered == (LastUnregister /\ reg_last.native) => Unregistered

(***************************************************************************)
(* Properties of ptnet_sync_tail.                                          *)
(***************************************************************************)
\* C14: ptnet_sync_tail sets hwcur and hwtail of the ring to the values the
\* host published in the CSB and tail to hwtail, leaves head and cur alone,
\* and a second call with the CSB unchanged changes no cursor
C14_SyncTailIdempotent ==
    LET k1 == ptnet_sync_tail(csb.tx_ring, tx_kring)
        k2 == ptnet_sync_tail(csb.tx_ring, k1)
    IN  /\ k1.nr_hwcur = csb.tx_ring.hwcur
        /\ k1.nr_hwtail = csb.tx_ring.hwtail
        /\ k1.tail = csb.tx_ring.hwtail
        /\ k1.head = tx_kring.head
        /\ k1.cur = tx_kring.cur
        /\ Cursors(k2) = Cursors(k1)

\* a ptnet_start_xmit call has pulled values the host published after the
\* start, and the host has published nothing since
C14_PulledPeerState ==
    /\ xmit.pc = "publish"
    /\ tx_kring.nr_hwcur # lim
    /\ tx_kring.nr_hwcur = csb.tx_ring.hwcur
    /\ tx_kring.tail = csb.tx_ring.hwtail
    /\ Cursors(ptnet_sync_tail(csb.tx_ring, tx_kring)) = Cursors(tx_kring)

(***************************************************************************)
(* Properties of the budget of ptnet_rx_poll.                              *)
(***************************************************************************)
\* invocation i leaves the loop
PollLeavesLoop(i) ==
    /\ poll[i].pc \in {"loop", "broke"}
    /\ poll'[i].pc \in {"complete", "publish"}

\* C17: an invocation of ptnet_rx_poll takes at most budget slots and has
\* 0 <= work_done <= budget; it sets guest_need_rxkick and completes the poll
\* only with work_done < budget; with the budget used up it does neither and
\* keeps NAPI_STATE_SCHED, so that it is polled again
C17_PollBudget ==
    /\ [](\A i \in Pollers :
            /\ poll[i].work_done \in 0..Budget
            /\ poll[i].taken \in poll[i].work_done..Budget
            /\ poll[i].pc \in {"complete", "dblchk"} =>
                  poll[i].work_done < Budget
            /\ poll[i].pc = "complete" => csb.guest_need_rxkick = 1
            /\ (poll[i].pc \in {"publish", "kick"}
                    /\ poll[i].work_done = Budget) =>
                  napi.sched /\ poll[i].owns)
    /\ [][\A i \in Pollers :
            PollLeavesLoop(i) =>
                IF poll[i].work_done < Budget
                THEN poll'[i].pc = "complete" /\ csb'.guest_need_rxkick = 1
                ELSE poll'[i].pc = "publish" /\ csb' = csb /\ napi' = napi]_vars

\* an invocation used its budget up and goes on to publish, still scheduled
C17_BudgetUsedUp ==
    \E i \in Pollers :
        /\ poll[i].pc = "publish"
        /\ poll[i].work_done = Budget
        /\ poll[i].taken = Budget
        /\ napi.sched
        /\ napi.by = 0

(***************************************************************************)
(* Properties of the allocation failure in ptnet_rx_poll.                  *)
(***************************************************************************)
\* C18: when the allocation fails the slot is given up, neither delivered
\* nor counted in rx_packets, rx_bytes or work_done; the invocation takes no
\* other slot, leaves the slots after it in the ring and returns the
\* work_done it had
C18_AllocFailureStops ==
    /\ [](\A i \in Pollers :
            poll[i].taken # poll[i].work_done =>
                /\ poll[i].taken = poll[i].work_done + 1
                /\ poll[i].pc # "loop")
    /\ [][\A i \in Pollers :
            /\ (poll[i].pc = "loop" /\ poll'[i].pc = "broke") =>
                  /\ poll'[i].work_done = poll[i].work_done
                  /\ stats' = stats
                  /\ rx_dlv' = rx_dlv
                  /\ rx_kring'.head = nm_next(rx_kring.head, lim)
                  /\ rx_kring'.tail = rx_kring.tail
                  /\ rx_slot' = rx_slot
            /\ poll[i].pc \in {"broke", "complete", "dblchk", "publish", "kick"} =>
                  /\ poll'[i].work_done = poll[i].work_done
                  /\ poll'[i].taken = poll[i].taken
            /\ poll[i].pc \in {"broke", "complete"} =>
                  /\ rx_kring'.head = rx_kring.head
                  /\ stats' = stats
                  /\ rx_dlv' = rx_dlv]_vars

\* an allocation failed with a slot left in the ring behind the failing one
C18_BrokeWithSlotsLeft ==
    \E i \in Pollers :
        /\ poll[i].pc = "broke"
        /\ poll[i].work_done = 0
        /\ poll[i].taken = 1
        /\ rx_kring.head # rx_kring.tail

(***************************************************************************)
(* Properties of the order of the writes of ptnet_start_xmit.              *)
(***************************************************************************)
\* slot s lies in the circular range [from, to)
InRing(s, from, to) ==
    (s - from + NSlots) % NSlots < (to - from + NSlots) % NSlots

\* the slots the host may read: below the published head, not consumed yet
PeerReadable(s) == InRing(s, be_tx.hwcur, csb.tx_ring.head)

\* ptnet_start_xmit writes head and cur to the CSB
TxPublishes == xmit.pc = "publish" /\ xmit'.pc = "kick"

\* C20: when ptnet_start_xmit writes head and cur to the CSB every slot from
\* the head published before to the new head has the payload, len and flags
\* the call gave it, and no slot the host may read is written
C20_PayloadThenCursor ==
    /\ [][TxPublishes =>
            /\ tx_slot' = tx_slot
            /\ csb.tx_ring.head = tx_last.old_head
            /\ csb'.tx_ring.head = tx_kring.head
            /\ \A n \in 1..Len(tx_last.log) :
                  LET e == tx_last.log[n]
                  IN  /\ InRing(e.idx, csb.tx_ring.head, csb'.tx_ring.head)
                      /\ tx_slot[e.idx].len = e.len
                      /\ tx_slot[e.idx].flags = e.flags]_vars
    /\ [][\A s \in Slots : PeerReadable(s) => tx_slot'[s] = tx_slot[s]]_vars

(***************************************************************************)
(* The interface as a whole: both datapaths with their host workers, the   *)
(* two interrupt handlers and ptnet_close, with packets of one slot.       *)
(***************************************************************************)
MaxDevXmit == 2  \* ptnet_start_xmit calls in a behaviour with both paths
MaxDevRx == 2    \* packets the host places in a behaviour with both paths

DevXmit ==
    /\ n_xmit < MaxDevXmit
    /\ \E more \in BOOLEAN :
          XmitStart(MkSkb(PktId(n_xmit), 1, <<>>, NoMeta, more),
                    VIRTIO_NET_HDR_GSO_NONE)

\* ptnet_rx_poll, one invocation at a time, every allocation succeeds
DevPoll ==
    \/ PollStart(1)
    \/ PollSlot(1, TRUE)
    \/ PollArm(1)
    \/ PollComplete(1)
    \/ PollDoubleCheck(1)
    \/ PollPublish(1)
    \/ PollKick(1)

DevRxProduce ==
    /\ n_rx < MaxDevRx
    /\ BackendRxProduce([lens |-> <<1>>, vh |-> NoVh])

NextDev ==
    \/ DevXmit
    \/ XmitPublish
    \/ XmitKick
    \/ XmitStop
    \/ XmitDoubleCheck
    \/ ptnet_tx_intr
    \/ BackendTxKicked
    \/ BackendTxConsume
    \/ BackendTxPublish
    \/ BackendTxNotify
    \/ BackendTxIdle
    \/ BackendTxRecheck
    \/ ptnet_rx_intr
    \/ DevPoll
    \/ DevRxProduce
    \/ BackendRxPublish
    \/ BackendRxNotify
    \/ BackendRxKicked
    \/ ptnet_close

SpecDev == Init /\ [][NextDev]_vars

(***************************************************************************)
(* Properties of the doorbells.                                            *)
(***************************************************************************)
\* the step of ptnet_start_xmit, of ptnet_rx_poll, that decides on the kick
TxKickStep == xmit.pc = "kick" /\ xmit'.pc = "stop"
RxKickStep(i) == poll[i].pc = "kick" /\ poll'[i].pc = "idle"

\* C19: a doorbell is written only after the invocation published cur and
\* head in the CSB; ptnet_start_xmit writes TXKICK iff host_need_txkick, read
\* after the publish, is set and xmit_more is clear; ptnet_rx_poll writes
\* RXKICK iff it published and host_need_rxkick, read after the publish, is set
C19_KickAfterPublish ==
    /\ [](xmit.pc = "kick" =>
            /\ csb.tx_ring.head = tx_kring.head
            /\ csb.tx_ring.cur = tx_kring.cur)
    /\ [](\A i \in Pollers : poll[i].pc = "kick" =>
            /\ poll[i].work_done > 0
            /\ csb.rx_ring.head = rx_kring.head
            /\ csb.rx_ring.cur = rx_kring.cur)
    /\ [][/\ TxKickStep =>
               txkick' = (txkick \/ (csb.host_need_txkick = 1
                                        /\ ~xmit.skb.xmit_more))
          /\ (txkick' /\ ~txkick) => TxKickStep
          /\ \A i \in Pollers :
               RxKickStep(i) =>
                   rxkick' = (rxkick \/ csb.host_need_rxkick = 1)
          /\ (rxkick' /\ ~rxkick) => \E i \in Pollers : RxKickStep(i)]_vars

\* both doorbells have been written, each after its publish
C19_BothDoorbellsWritten ==
    /\ txkick
    /\ rxkick
    /\ csb.tx_ring.sync_flags = NAF_FORCE_RECLAIM
    /\ csb.rx_ring.sync_flags = NAF_FORCE_READ
    /\ csb.rx_ring.head # lim
    /\ csb.tx_ring.head # lim

(***************************************************************************)
(* Properties of ptnet_close.                                              *)
(***************************************************************************)
\* ptnet_close has written UNREGIF
UnregifIssued == cl.pc \in {"unreg", "closed"}

\* the cursors of the CSB that the guest writes
GuestCursors(c) == <<c.tx_ring.head, c.tx_ring.cur, c.rx_ring.head, c.rx_ring.cur>>

\* C13: ptnet_close writes UNREGIF after it has disabled the notifications
\* and the transmit queue and before it releases the registration; once it
\* is written no step of ptnet_start_xmit or ptnet_rx_poll touches a ring or
\* the cursors of the CSB, and a TX interrupt taken during the close does
\* not restart the queue
C13_CloseQuiesces ==
    /\ [](cl.pc \in {"tx_off", "napi_off", "unreg", "closed"} => queue_stopped)
    /\ [](UnregifIssued => csb.guest_csb_on = 0)
    /\ [](nm_priv \/ cl.pc = "closed")
    /\ [][UnregifIssued =>
            /\ tx_kring' = tx_kring
            /\ rx_kring' = rx_kring
            /\ tx_slot' = tx_slot
            /\ GuestCursors(csb') = GuestCursors(csb)]_vars

\* the part of it that only depends on the order of the steps of ptnet_close
CloseOrder ==
    /\ UnregifIssued => csb.guest_csb_on = 0 /\ napi.sched /\ ~NapiEnabled
    /\ nm_priv \/ cl.pc = "closed"

(***************************************************************************)
(* Properties of the return of ptnet_rx_poll.                              *)
(***************************************************************************)
\* the step with which the invocation i of ptnet_rx_poll returns
PollReturns(i) == poll[i].pc \in {"publish", "kick"} /\ poll'[i].pc = "idle"

\* no other invocation is between its first and its last step
PollAlone(i) == \A j \in Pollers \ {i} : poll[j].pc = "idle"

\* C21: when an invocation of ptnet_rx_poll that advanced head returns, the
\* head and cur of the RX ring in the CSB are those of the ring, whether the
\* loop ended on the budget, on an empty ring, on a failed allocation or
\* after a packet dropped by the checksum setup
C21_ConsumedIsPublished ==
    [][\A i \in Pollers :
          (PollReturns(i) /\ PollAlone(i) /\ poll[i].taken > 0) =>
              /\ csb'.rx_ring.head = rx_kring'.head
              /\ csb'.rx_ring.cur = rx_kring'.cur]_vars

\* an invocation that delivered or dropped a packet writes the head and the
\* cur of the ring to the CSB before it returns
PublishedWhenCounted ==
    [][\A i \in Pollers :
          (/\ poll[i].pc = "publish"
           /\ poll'[i].pc # "publish"
           /\ poll[i].work_done > 0) =>
              /\ poll'[i].pc = "kick"
              /\ csb'.rx_ring.head = rx_kring.head
              /\ csb'.rx_ring.cur = rx_kring.cur]_vars

(***************************************************************************)
(* Properties of guest_need_txkick.                                        *)
(***************************************************************************)
\* the step with which a call of ptnet_start_xmit returns
XmitReturns ==
    \/ xmit.pc # "idle" /\ xmit'.pc = "idle"
    \/ xmit.pc = "idle" /\ n_xmit' # n_xmit /\ xmit'.pc = "idle"

\* C22: a call of ptnet_start_xmit that returns with the TX queue running
\* returns with guest_need_txkick clear, also when it is a call made after
\* ptnet_tx_intr woke the queue
C22_TxKickOnlyWhilePaused ==
    [][(XmitReturns /\ ~queue_stopped') => csb'.guest_need_txkick = 0]_vars

\* a call whose double check found space returns with it clear
TxKickClearedByDoubleCheck ==
    [][(XmitReturns /\ tx_last'.dblchk = "space") =>
          ~queue_stopped' /\ csb'.guest_need_txkick = 0]_vars

(***************************************************************************)
(* Properties of the counters.                                             *)
(***************************************************************************)
\* the return of a call that accepted its packet, and of any call
XmitAccepts == XmitReturns /\ tx_last'.outcome = "accepted"

\* the byte and packet counters of the TX side move with the packets
\* ptnet_start_xmit accepted, and with nothing else
TxCountersExact ==
    [][IF XmitAccepts
       THEN /\ stats'.tx_packets = stats.tx_packets + 1
            /\ stats'.tx_bytes = stats.tx_bytes + skb_len(tx_last'.skb)
       ELSE /\ stats'.tx_packets = stats.tx_packets
            /\ stats'.tx_bytes = stats.tx_bytes]_vars

\* the byte and packet counters of the RX side move with the packets
\* ptnet_rx_poll handed to the stack, and with nothing else
RxCountersExact ==
    [][IF rx_dlv'.count # rx_dlv.count
       THEN /\ rx_dlv'.count = rx_dlv.count + 1
            /\ stats'.rx_packets = stats.rx_packets + 1
            /\ stats'.rx_bytes = stats.rx_bytes + Len(rx_dlv'.skb.bytes)
       ELSE /\ stats'.rx_packets = stats.rx_packets
            /\ stats'.rx_bytes = stats.rx_bytes]_vars

\* C23: tx_packets and tx_bytes count exactly the packets ptnet_start_xmit
\* accepted and their lengths, rx_packets and rx_bytes exactly the packets
\* ptnet_rx_poll delivered to the stack and their lengths
C23_CountersExact == TxCountersExact /\ RxCountersExact

(***************************************************************************)
(* The RX side when the host places a packet whose last slot holds fewer   *)
(* bytes than a header record.                                             *)
(***************************************************************************)
ShortTailShapes ==
    { [lens |-> <<1>>, vh |-> NoVh],
      [lens |-> <<BufSize - VNetHdrLen, 1>>, vh |-> NoVh] }

NextRxShort ==
    \/ ptnet_rx_intr
    \/ ptnet_rx_poll
    \/ \E sh \in ShortTailShapes : BackendRxProduce(sh)
    \/ BackendRxPublish
    \/ BackendRxNotify
    \/ BackendRxWait
    \/ BackendRxKicked

SpecRxShort == Init /\ [][NextRxShort]_vars

\* the turn of the loop of ptnet_rx_poll that takes the slot at head
PollTakes(i) == poll[i].pc = "loop" /\ poll'[i].taken = poll[i].taken + 1

\* C24: with header records on, the length ptnet_rx_poll allocates and
\* copies for a slot is the slot's len minus the size of the header record
\* and lies in 0..BufSize; it never is the wrapped value of a len below the
\* size of the header record
C24_RxLenInRange ==
    [][\A i \in Pollers :
          (PollTakes(i) /\ HaveVnetHdr) =>
              LET s == rx_slot[rx_kring.head]
              IN  /\ RxLen(s) \in 0..BufSize
                  /\ poll'[i].pc # "panic"
                  /\ rx_dlv'.count # rx_dlv.count =>
                         Len(rx_dlv'.skb.bytes) = s.len - VNetHdrLen]_vars

(***************************************************************************)
(* Properties of ptnet_open.                                               *)
(***************************************************************************)
\* the interface is not open for the stack: no ptnet_open succeeded since
\* the last ptnet_close, and no ptnet_close is on its way
IfDown == cl.pc = "closed"

\* a step of a ptnet_open call that failed
OpenFails == IfDown /\ cl'.pc = "closed" /\ reg_last'.op = "open"

\* C25: nm_priv is non-NULL exactly while the interface is open; when it is
\* not open nm_register is the native variant; a ptnet_open call that fails,
\* for want of memory or in netmap_do_regif, leaves the reference count of
\* the adapter as it found it
C25_OpenStateConsistent ==
    /\ [](IfDown => ~nm_priv /\ na.nm_register = "native")
    /\ [](~IfDown => nm_priv)
    /\ [][OpenFails => na'.na_refcount = na.na_refcount]_vars

\* what holds of it: nm_priv is non-NULL while the interface is open, and a
\* ptnet_open call that fails in netmap_do_regif gives its reference back
OpenHoldsPriv ==
    /\ [](~IfDown => nm_priv)
    /\ [](cl.pc = "open" => na.nm_register = "netif")
    /\ [][(OpenFails /\ reg_last'.ret # ENOMEM) =>
             na'.na_refcount = na.na_refcount]_vars

(***************************************************************************)
(* Properties of ptnet_tx_intr.                                            *)
(***************************************************************************)
\* the step of ptnet_tx_intr: it is the one that takes the TX interrupt
TxIntrStep == tx_irq /\ ~tx_irq'

\* C26: with the interface open, ptnet_tx_intr wakes the TX queue and does
\* nothing else: the cursors of both rings, every slot and every field of the
\* CSB, guest_need_txkick among them, are as they were
C26_TxIntrOnlyWakes ==
    [][(TxIntrStep /\ nm_priv) =>
          /\ ~queue_stopped'
          /\ tx_kring' = tx_kring
          /\ rx_kring' = rx_kring
          /\ tx_slot' = tx_slot
          /\ rx_slot' = rx_slot
          /\ csb' = csb
          /\ stats' = stats]_vars

\* ptnet_tx_intr has woken the queue that the last ptnet_start_xmit call
\* left stopped
C26_QueueWokenByIntr ==
    /\ nm_priv
    /\ xmit.pc = "idle"
    /\ tx_last.dblchk = "full"
    /\ ~queue_stopped
    /\ ~tx_irq
    /\ csb.guest_need_txkick = 1
    /\ cl.pc = "open"

(***************************************************************************)
(* ptnet_nm_config, for every answer of the host: whether a CSB is         *)
(* attached, the status the host returns for CONFIG and the numbers it     *)
(* publishes in the CSB when it accepts it.                                *)
(***************************************************************************)
MaxCfgRings == 2  \* ring counts the host may publish

EINVAL == 22

CfgSlots == {NSlots, 2 * NSlots}

\* the host serves CONFIG: when it accepts, the CSB holds its numbers
HostConfig(c) == IF c.sts = 0 THEN [c EXCEPT !.csb_num = c.host] ELSE c

\* lines 895-926
ptnet_nm_config(c) ==
    IF ~c.csb_attached
    THEN [c EXCEPT !.ret = EINVAL]
    ELSE LET r == ptnet_nm_ptctl(c.ops, "NET_PARAVIRT_PTCTL_CONFIG", c.sts)
             h == [HostConfig(c) EXCEPT !.ops = r.ops, !.ret = r.ret]
         IN  IF r.ret # 0
             THEN h
             ELSE LET fromcsb == [txr |-> h.csb_num.txr, rxr |-> h.csb_num.rxr]
                      forced == [fromcsb EXCEPT !.txr = 1, !.rxr = 1]
                  IN  [h EXCEPT !.out = CfgNums(forced.txr, h.csb_num.txd,
                                                forced.rxr, h.csb_num.rxd)]

ConfigInputs ==
    { [NoConfig EXCEPT !.pc = "new", !.csb_attached = a, !.sts = s,
                       !.host = CfgNums(txr, txd, rxr, rxd)] :
        a \in BOOLEAN, s \in PtctlResults,
        txr \in 1..MaxCfgRings, rxr \in 1..MaxCfgRings,
        txd \in CfgSlots, rxd \in CfgSlots }

InitCfg ==
    /\ ptfeatures \in Features
    /\ nm_priv = FALSE
    /\ InitTx(lim)
    /\ InitRx(lim)
    /\ csb = [InitCsb(lim, lim) EXCEPT !.guest_csb_on = 0]
    /\ stats = NoStats
    /\ hdr = HdrOff
    /\ na = NaClosed
    /\ host_reg = NoCtl
    /\ reg_last = RegCall("none", FALSE, FALSE, FALSE, 0, <<>>, FALSE,
                          [na |-> NaClosed, tx_kring |-> tx_kring,
                           rx_kring |-> rx_kring])
    /\ cl = [pc |-> "closed"]
    /\ cfg \in ConfigInputs

ConfigCall ==
    /\ cfg.pc = "new"
    /\ cfg' = [ptnet_nm_config(cfg) EXCEPT !.pc = "done"]
    /\ UNCHANGED <<ptfeatures, nm_priv, csb, stats, txvars, rxvars, hdr, na,
                   host_reg, reg_last, cl>>

NextCfg == ConfigCall

SpecCfg == InitCfg /\ [][NextCfg]_vars

\* the output parameters were not written
CfgUnwritten == cfg.out = NoConfig.out

\* ptnet_nm_config returns an error without a CONFIG operation when no CSB
\* is attached, and the status of a CONFIG the host rejected; in both cases
\* the output parameters are not written
ConfigFailuresReported ==
    cfg.pc = "done" =>
        /\ ~cfg.csb_attached => cfg.ret # 0 /\ cfg.ops = <<>> /\ CfgUnwritten
        /\ (cfg.csb_attached /\ cfg.sts # 0) =>
               cfg.ret = cfg.sts /\ Len(cfg.ops) = 1 /\ CfgUnwritten

\* C27: ptnet_nm_config reports every failure and writes no output
\* parameter then; when it succeeds the slot counts it returns are
\* num_tx_slots and num_rx_slots of the CSB and the ring counts are the ones
\* the host published in the CSB
C27_ConfigReports ==
    /\ ConfigFailuresReported
    /\ (cfg.pc = "done" /\ cfg.csb_attached /\ cfg.sts = 0) =>
           /\ cfg.ret = 0
           /\ cfg.out.txd = cfg.csb_num.txd
           /\ cfg.out.rxd = cfg.csb_num.rxd
           /\ cfg.out.txr = cfg.csb_num.txr
           /\ cfg.out.rxr = cfg.csb_num.rxr

=============================================================================
